---- MODULE Spec2Model ----
(***************************************************************************)
(* The compact-block scanner of zcash_client_backend (scanning.rs):       *)
(* scan_block / scan_block_with_runner as a state machine.  One scan is   *)
(* four steps: the continuity gate, the tree-size seed resolver, one step *)
(* per transaction of the block, and the post-block audit that returns.   *)
(***************************************************************************)
EXTENDS Integers, Sequences, FiniteSets, TLC

VARIABLES
    params,                       \* activation_height(NetworkUpgrade::Sapling): an Option
    block,                        \* the CompactBlock being scanned
    prior_block_metadata,         \* Option<&BlockMetadata>
    sapling_keys,                 \* &[(&A, SK)]
    sapling_nullifiers,           \* &[(A, sapling::Nullifier)], the tracked table
    sapling_batch_runner,         \* Option<&mut TaggedBatchRunner<A, SK::Scope, T>>
    pc,                           \* position inside scan_block_with_runner
    start_tree_size,              \* Option: the value the seed resolver produced
    sapling_commitment_tree_size, \* the running u32 counter
    tx_idx,                       \* enumerate() index of the next transaction
    wtxs,                         \* Vec<WalletTx>
    sapling_nullifier_map,        \* Vec<(TxId, u16, Vec<Nullifier>)>
    sapling_note_commitments,     \* Vec<(Node, Retention<BlockHeight>)>
    result,                       \* Option<Result<ScannedBlock, ScanError>>
    orchard_feature,              \* cfg(feature = "orchard")
    nu5_activation,               \* activation_height(NetworkUpgrade::Nu5): an Option
    orchard_commitment_tree_size, \* the running u32 counter of the Orchard track
    scanned_blocks                \* what the caller has scanned before this block

vars == <<params, block, prior_block_metadata, sapling_keys, sapling_nullifiers,
          sapling_batch_runner, pc, start_tree_size,
          sapling_commitment_tree_size, tx_idx, wtxs, sapling_nullifier_map,
          sapling_note_commitments, result, orchard_feature, nu5_activation,
          orchard_commitment_tree_size, scanned_blocks>>

---------------------------------------------------------------------------
\* Bounds of the model.

MaxHeight == 2
MaxTreeSize == 3
MaxTxs == 2
MaxOutputs == 2

\* The tree-size counter is a u32.  The model keeps its wrap-around but scales
\* the width down: the counter counts modulo U32Modulus, far above every tree
\* size the specifications below start from, SpecOverflow excepted.
U32Modulus == 256

---------------------------------------------------------------------------
\* Option and Result.

None == <<>>
Some(x) == <<x>>
IsSome(o) == Len(o) = 1
Unwrap(o) == o[1]

Ok(v) == [ok |-> TRUE, val |-> v]
Err(e) == [ok |-> FALSE, err |-> e]

\* Concatenation of a sequence of sequences (flattening a Vec of Options).
RECURSIVE Flatten(_)
Flatten(ss) ==
    IF ss = <<>> THEN <<>> ELSE Head(ss) \o Flatten(Tail(ss))

\* u32 arithmetic.
U32Add(a, b) == (a + b) % U32Modulus
checked_sub(a, b) == IF a >= b THEN Some(a - b) ELSE None

---------------------------------------------------------------------------
\* ScanError.

PrevHashMismatch(h) ==
    [kind |-> "PrevHashMismatch", at_height |-> h]
BlockHeightDiscontinuity(prev, new) ==
    [kind |-> "BlockHeightDiscontinuity", prev_height |-> prev, new_height |-> new]
TreeSizeMismatch(protocol, h, given, computed) ==
    [kind |-> "TreeSizeMismatch", protocol |-> protocol, at_height |-> h,
     given |-> given, computed |-> computed]
TreeSizeUnknown(protocol, h) ==
    [kind |-> "TreeSizeUnknown", protocol |-> protocol, at_height |-> h]
TreeSizeInvalid(protocol, h) ==
    [kind |-> "TreeSizeInvalid", protocol |-> protocol, at_height |-> h]

\* The classification that takes every tree-size error for a continuity error.
is_continuity_error_TreeSizeErrors(e) ==
    CASE e.kind = "PrevHashMismatch" -> TRUE
      [] e.kind = "BlockHeightDiscontinuity" -> TRUE
      [] e.kind = "TreeSizeMismatch" -> TRUE
      [] e.kind = "TreeSizeUnknown" -> TRUE
      [] e.kind = "TreeSizeInvalid" -> TRUE

is_continuity_error(e) ==
    CASE e.kind = "PrevHashMismatch" -> TRUE
      [] e.kind = "BlockHeightDiscontinuity" -> TRUE
      [] e.kind = "TreeSizeMismatch" -> TRUE
      [] e.kind = "TreeSizeUnknown" -> FALSE
      [] e.kind = "TreeSizeInvalid" -> FALSE

\* The height of a discontinuity taken from the block before it.
at_height_PrevHeight(e) ==
    CASE e.kind = "PrevHashMismatch" -> e.at_height
      [] e.kind = "BlockHeightDiscontinuity" -> e.prev_height
      [] e.kind = "TreeSizeMismatch" -> e.at_height
      [] e.kind = "TreeSizeUnknown" -> e.at_height
      [] e.kind = "TreeSizeInvalid" -> e.at_height

at_height(e) ==
    CASE e.kind = "PrevHashMismatch" -> e.at_height
      [] e.kind = "BlockHeightDiscontinuity" -> e.new_height
      [] e.kind = "TreeSizeMismatch" -> e.at_height
      [] e.kind = "TreeSizeUnknown" -> e.at_height
      [] e.kind = "TreeSizeInvalid" -> e.at_height

---------------------------------------------------------------------------
\* The continuity gate.

\* The hash check standing before the height check.
check_hash_continuity_HashFirst(blk, prior) ==
    IF ~IsSome(prior) THEN None
    ELSE LET prev == Unwrap(prior) IN
         IF blk.prev_hash # prev.block_hash
         THEN Some(PrevHashMismatch(blk.height))
         ELSE IF blk.height # prev.block_height + 1
         THEN Some(BlockHeightDiscontinuity(prev.block_height, blk.height))
         ELSE None

\* The hash mismatch reported at the height of the prior block.
check_hash_continuity_PrevHeight(blk, prior) ==
    IF ~IsSome(prior) THEN None
    ELSE LET prev == Unwrap(prior) IN
         IF blk.height # prev.block_height + 1
         THEN Some(BlockHeightDiscontinuity(prev.block_height, blk.height))
         ELSE IF blk.prev_hash # prev.block_hash
         THEN Some(PrevHashMismatch(prev.block_height))
         ELSE None

\* The gate that checks the height only.
check_hash_continuity_HeightOnly(blk, prior) ==
    IF ~IsSome(prior) THEN None
    ELSE LET prev == Unwrap(prior) IN
         IF blk.height # prev.block_height + 1
         THEN Some(BlockHeightDiscontinuity(prev.block_height, blk.height))
         ELSE None

check_hash_continuity(blk, prior) ==
    IF ~IsSome(prior) THEN None
    ELSE LET prev == Unwrap(prior) IN
         IF blk.height # prev.block_height + 1
         THEN Some(BlockHeightDiscontinuity(prev.block_height, blk.height))
         ELSE IF blk.prev_hash # prev.block_hash
         THEN Some(PrevHashMismatch(blk.height))
         ELSE None

---------------------------------------------------------------------------
\* The tree-size seed resolver.

\* The count of the block's transactions in place of that of their outputs.
sapling_output_count_Transactions(vtx) ==
    Len(vtx)

\* block.vtx.iter().map(|tx| tx.outputs.len()).sum()
RECURSIVE sapling_output_count(_)
sapling_output_count(vtx) ==
    IF vtx = <<>> THEN 0
    ELSE Len(Head(vtx).outputs) + sapling_output_count(Tail(vtx))

\* The activation test accepting the activation height itself.
activation_tree_size_AtOrBelow(activation, cur_height) ==
    IF ~IsSome(activation) THEN Ok(0)
    ELSE IF cur_height <= Unwrap(activation) THEN Ok(0)
    ELSE Err(TreeSizeUnknown("Sapling", cur_height))

\* No chain metadata: zero below Sapling activation or with activation unset.
activation_tree_size(activation, cur_height) ==
    IF ~IsSome(activation) THEN Ok(0)
    ELSE IF cur_height < Unwrap(activation) THEN Ok(0)
    ELSE Err(TreeSizeUnknown("Sapling", cur_height))

\* The subtraction without its underflow check (saturating at zero).
chain_metadata_tree_size_Saturating(m, blk) ==
    LET n == sapling_output_count(blk.vtx) IN
    IF m.sapling_commitment_tree_size >= n
    THEN Ok(m.sapling_commitment_tree_size - n)
    ELSE Ok(0)

\* Chain metadata present: the declared end size minus the block's outputs.
chain_metadata_tree_size(m, blk) ==
    LET d == checked_sub(m.sapling_commitment_tree_size,
                         sapling_output_count(blk.vtx)) IN
    IF IsSome(d) THEN Ok(Unwrap(d))
    ELSE Err(TreeSizeInvalid("Sapling", blk.height))

\* prior_block_metadata.and_then(|m| m.sapling_tree_size())
prior_sapling_tree_size(prior) ==
    IF IsSome(prior) THEN Unwrap(prior).sapling_tree_size ELSE None

\* The block's chain metadata consulted before the prior metadata.
initial_sapling_tree_size_MetadataFirst(activation, blk, prior) ==
    IF IsSome(blk.chain_metadata)
    THEN chain_metadata_tree_size(Unwrap(blk.chain_metadata), blk)
    ELSE IF IsSome(prior_sapling_tree_size(prior))
    THEN Ok(Unwrap(prior_sapling_tree_size(prior)))
    ELSE activation_tree_size(activation, blk.height)

\* The resolver that rejects chain metadata declaring less than the block's
\* outputs before it looks at the prior metadata.
initial_sapling_tree_size_ValidateMetadata(activation, blk, prior) ==
    IF /\ IsSome(blk.chain_metadata)
       /\ ~chain_metadata_tree_size(Unwrap(blk.chain_metadata), blk).ok
    THEN chain_metadata_tree_size(Unwrap(blk.chain_metadata), blk)
    ELSE IF IsSome(prior_sapling_tree_size(prior))
    THEN Ok(Unwrap(prior_sapling_tree_size(prior)))
    ELSE IF IsSome(blk.chain_metadata)
    THEN chain_metadata_tree_size(Unwrap(blk.chain_metadata), blk)
    ELSE activation_tree_size(activation, blk.height)

initial_sapling_tree_size(activation, blk, prior) ==
    IF IsSome(prior_sapling_tree_size(prior))
    THEN Ok(Unwrap(prior_sapling_tree_size(prior)))
    ELSE IF IsSome(blk.chain_metadata)
    THEN chain_metadata_tree_size(Unwrap(blk.chain_metadata), blk)
    ELSE activation_tree_size(activation, blk.height)

---------------------------------------------------------------------------
\* Scanning keys.  A key is [kind, id]: a DiversifiableFullViewingKey yields
\* one (scope, ivk, nk) per scope, a SaplingIvk a single (unit, ivk, unit).

Unit == <<>>

to_ivks(k) ==
    IF k.kind = "dfvk"
    THEN << [scope |-> "External", ivk |-> 2 * k.id - 1, nk |-> 2 * k.id - 1],
            [scope |-> "Internal", ivk |-> 2 * k.id, nk |-> 2 * k.id] >>
    ELSE << [scope |-> "Unit", ivk |-> k.id, nk |-> 0] >>

\* ScanningKey::nf: derived from (nk, note, position); the unit value for an
\* incoming-only key (scope "Unit").
nf(scope, nk, note, position) ==
    IF scope = "Unit" THEN Unit
    ELSE <<nk, note.cmu, position>>

\* sapling_keys.iter().flat_map(|(a, k)| k.to_ivks() ... (**a, scope, ivk, nk))
flat_keys(keys) ==
    Flatten([i \in 1..Len(keys) |->
        LET ivks == to_ivks(keys[i].key) IN
        [j \in 1..Len(ivks) |->
            [account |-> keys[i].account, scope |-> ivks[j].scope,
             ivk |-> ivks[j].ivk, nk |-> ivks[j].nk]]])

\* batch::try_compact_note_decryption(&ivks, &decoded): for each output the
\* note and the index of the first ivk that decrypts it, if any.  An output
\* names in `recipient` the ivk it was encrypted to (0: none of this model).
try_compact_note_decryption(ivks, outputs) ==
    [i \in 1..Len(outputs) |->
        LET hits == {j \in 1..Len(ivks) : ivks[j] = outputs[i].recipient} IN
        IF hits = {} THEN None
        ELSE Some([note |-> [cmu |-> outputs[i].cmu, ivk |-> outputs[i].recipient],
                   ivk_idx |-> (CHOOSE j \in hits : \A k \in hits : j <= k) - 1])]

\* The inline branch: (note, account, scope, nk) by indexing back into the keys.
decrypted_inline(keys, outputs) ==
    LET fk == flat_keys(keys)
        ivks == [j \in 1..Len(fk) |-> fk[j].ivk]
        dec == try_compact_note_decryption(ivks, outputs)
    IN [i \in 1..Len(outputs) |->
           IF IsSome(dec[i])
           THEN LET k == fk[Unwrap(dec[i]).ivk_idx + 1] IN
                Some([note |-> Unwrap(dec[i]).note, account |-> k.account,
                      scope |-> k.scope, nk |-> k.nk])
           ELSE None]

---------------------------------------------------------------------------
\* The batch runner (scan::BatchRunner) and the scanner's use of it.

\* The ((account, scope), ivk) pairs a caller registers a runner with.
tagged_ivks(keys) ==
    LET fk == flat_keys(keys) IN
    [j \in 1..Len(fk) |->
        [tag |-> <<fk[j].account, fk[j].scope>>, ivk |-> fk[j].ivk]]

\* A runner: the registered ivks, the batch being filled, the batches handed
\* to workers, and the decrypted outputs the workers have sent back.
BatchRunner_new(batch_size_threshold, ivks) ==
    [batch_size_threshold |-> batch_size_threshold,
     ivks |-> ivks,
     acc |-> <<>>,
     running |-> {},
     results |-> {}]

\* Hands the batch being filled, if it holds anything, to a worker.
flush(runner) ==
    IF runner.acc = <<>> THEN runner
    ELSE [runner EXCEPT !.running = @ \cup {runner.acc}, !.acc = <<>>]

\* Queues the outputs of one transaction and flushes a full batch.
add_outputs(runner, block_tag, txid, outputs) ==
    LET queued == [runner EXCEPT !.acc = @ \o
                      [i \in 1..Len(outputs) |->
                          [block_tag |-> block_tag, txid |-> txid,
                           index |-> i - 1, output |-> outputs[i]]]]
    IN IF Len(queued.acc) >= queued.batch_size_threshold
       THEN flush(queued)
       ELSE queued

\* A worker decrypts one batch: every output some registered ivk decrypts is
\* sent back with that ivk's tag.
run_batch(runner, batch) ==
    LET dec == try_compact_note_decryption(
                   [j \in 1..Len(runner.ivks) |-> runner.ivks[j].ivk],
                   [i \in 1..Len(batch) |-> batch[i].output])
    IN [runner EXCEPT
           !.running = @ \ {batch},
           !.results = @ \cup
               {[block_tag |-> batch[i].block_tag, txid |-> batch[i].txid,
                 index |-> batch[i].index,
                 note |-> Unwrap(dec[i]).note,
                 ivk_tag |-> runner.ivks[Unwrap(dec[i]).ivk_idx + 1].tag] :
                   i \in {k \in 1..Len(batch) : IsSome(dec[k])}}]

\* collect_results waits until no output of the transaction is queued or with
\* a worker, then takes the transaction's results out of the runner.
results_ready(runner, block_tag, txid) ==
    \A b \in runner.running \cup {runner.acc} : \A i \in 1..Len(b) :
        ~(b[i].block_tag = block_tag /\ b[i].txid = txid)

collect_results(runner, block_tag, txid) ==
    {d \in runner.results : d.block_tag = block_tag /\ d.txid = txid}

after_collect_results(runner, block_tag, txid) ==
    [runner EXCEPT !.results = @ \ collect_results(runner, block_tag, txid)]

\* add_block_to_runner: add_outputs for every transaction, in block order.
RECURSIVE add_txs_to_runner(_, _, _)
add_txs_to_runner(vtx, block_hash, batch_runner) ==
    IF vtx = <<>> THEN batch_runner
    ELSE add_txs_to_runner(Tail(vtx), block_hash,
             add_outputs(batch_runner, block_hash, Head(vtx).txid,
                         Head(vtx).outputs))

add_block_to_runner(blk, batch_runner) ==
    add_txs_to_runner(blk.vtx, blk.hash, batch_runner)

\* The HashMap<(account, scope), nk> of the batched branch, looked up: of
\* several keys collected under one tag the map holds the last.
sapling_keys_get(keys, tag) ==
    LET fk == flat_keys(keys)
        hits == {j \in 1..Len(fk) : <<fk[j].account, fk[j].scope>> = tag}
    IN IF hits = {} THEN None
       ELSE Some(fk[CHOOSE j \in hits : \A k \in hits : k <= j].nk)

\* The batched branch handing the transaction's results to its outputs one
\* after the other, in index order, instead of looking each output's index up.
decrypted_batched_Zipped(keys, collected, txid, decoded_len) ==
    [i \in 1..decoded_len |->
        LET mine == {d \in collected : d.txid = txid}
            hits == {d \in mine :
                        Cardinality({c \in mine : c.index < d.index}) = i - 1}
        IN IF hits = {} THEN None
           ELSE LET d_out == CHOOSE d \in hits : TRUE IN
                Some([note |-> d_out.note,
                      account |-> d_out.ivk_tag[1],
                      scope |-> d_out.ivk_tag[2],
                      nk |-> Unwrap(sapling_keys_get(keys, d_out.ivk_tag))])]

\* The batched branch: (note, account, scope, nk) from the collected results,
\* the nk looked up by the result's tag.
decrypted_batched(keys, collected, txid, decoded_len) ==
    [i \in 1..decoded_len |->
        LET hits == {d \in collected : d.txid = txid /\ d.index = i - 1} IN
        IF hits = {} THEN None
        ELSE LET d_out == CHOOSE d \in hits : TRUE IN
             Some([note |-> d_out.note,
                   account |-> d_out.ivk_tag[1],
                   scope |-> d_out.ivk_tag[2],
                   nk |-> Unwrap(sapling_keys_get(keys, d_out.ivk_tag))])]

---------------------------------------------------------------------------
\* The nullifier matcher.

\* CtOption::conditional_select(&next, &first, first.is_some()) folded over
\* the tracked table, from CtOption::new(A::default(), 0).
RECURSIVE ct_fold(_, _, _)
ct_fold(first, nullifiers, spend_nf) ==
    IF nullifiers = <<>> THEN first
    ELSE LET next == [value |-> Head(nullifiers).account,
                      is_some |-> Head(nullifiers).nf = spend_nf]
         IN ct_fold(IF first.is_some THEN first ELSE next,
                    Tail(nullifiers), spend_nf)

\* The matcher comparing each spend with the first tracked entry only.
check_nullifiers_FirstEntryOnly(spends, nullifiers) ==
    LET matched == [i \in 1..Len(spends) |->
                       ct_fold([value |-> 0, is_some |-> FALSE],
                               IF nullifiers = <<>> THEN <<>>
                               ELSE <<Head(nullifiers)>>,
                               spends[i].nf)]
    IN << Flatten([i \in 1..Len(spends) |->
                      IF matched[i].is_some
                      THEN Some([index |-> i - 1, nf |-> spends[i].nf,
                                 account |-> matched[i].value])
                      ELSE None]),
          Flatten([i \in 1..Len(spends) |->
                      IF matched[i].is_some THEN None ELSE Some(spends[i].nf)]) >>

\* The matcher folding the tracked table from its end: the last entry that
\* matches wins.
check_nullifiers_LastMatch(spends, nullifiers) ==
    LET reversed == [k \in 1..Len(nullifiers) |->
                        nullifiers[Len(nullifiers) + 1 - k]]
        matched == [i \in 1..Len(spends) |->
                       ct_fold([value |-> 0, is_some |-> FALSE],
                               reversed, spends[i].nf)]
    IN << Flatten([i \in 1..Len(spends) |->
                      IF matched[i].is_some
                      THEN Some([index |-> i - 1, nf |-> spends[i].nf,
                                 account |-> matched[i].value])
                      ELSE None]),
          Flatten([i \in 1..Len(spends) |->
                      IF matched[i].is_some THEN None ELSE Some(spends[i].nf)]) >>

\* The matcher putting each spend in front of the ones before it.
check_nullifiers_Prepend(spends, nullifiers) ==
    LET n == Len(spends)
        matched == [i \in 1..n |->
                       ct_fold([value |-> 0, is_some |-> FALSE], nullifiers,
                               spends[n + 1 - i].nf)]
    IN << Flatten([i \in 1..n |->
                      IF matched[i].is_some
                      THEN Some([index |-> n - i, nf |-> spends[n + 1 - i].nf,
                                 account |-> matched[i].value])
                      ELSE None]),
          Flatten([i \in 1..n |->
                      IF matched[i].is_some THEN None
                      ELSE Some(spends[n + 1 - i].nf)]) >>

\* The matcher that lists every revealed nullifier as unlinked, the wallet's
\* spends included.
check_nullifiers_UnlinkedAll(spends, nullifiers) ==
    LET matched == [i \in 1..Len(spends) |->
                       ct_fold([value |-> 0, is_some |-> FALSE], nullifiers, spends[i].nf)]
    IN << Flatten([i \in 1..Len(spends) |->
                      IF matched[i].is_some
                      THEN Some([index |-> i - 1, nf |-> spends[i].nf,
                                 account |-> matched[i].value])
                      ELSE None]),
          [i \in 1..Len(spends) |-> spends[i].nf] >>

\* (found_spent, unlinked_nullifiers); index is the spend's position in the tx.
check_nullifiers(spends, nullifiers) ==
    LET matched == [i \in 1..Len(spends) |->
                       ct_fold([value |-> 0, is_some |-> FALSE], nullifiers, spends[i].nf)]
    IN << Flatten([i \in 1..Len(spends) |->
                      IF matched[i].is_some
                      THEN Some([index |-> i - 1, nf |-> spends[i].nf,
                                 account |-> matched[i].value])
                      ELSE None]),
          Flatten([i \in 1..Len(spends) |->
                      IF matched[i].is_some THEN None ELSE Some(spends[i].nf)]) >>

---------------------------------------------------------------------------
\* The per-transaction loop body.

Ephemeral == [kind |-> "Ephemeral"]
Marked == [kind |-> "Marked"]
Checkpoint(id, is_marked) == [kind |-> "Checkpoint", id |-> id, is_marked |-> is_marked]

\* The checkpoint put on the last output of every transaction.
is_checkpoint_EveryTx(output_idx, decoded_len, idx, compact_block_tx_count) ==
    output_idx + 1 = decoded_len

is_checkpoint(output_idx, decoded_len, idx, compact_block_tx_count) ==
    output_idx + 1 = decoded_len /\ idx + 1 = compact_block_tx_count

\* The retention that marks checkpoints only.
retention_Unmarked(is_marked, checkpoint, cur_height) ==
    IF checkpoint THEN Checkpoint(cur_height, is_marked)
    ELSE Ephemeral

\* match (dec_output.is_some(), is_checkpoint)
retention(is_marked, checkpoint, cur_height) ==
    IF checkpoint THEN Checkpoint(cur_height, is_marked)
    ELSE IF is_marked THEN Marked
    ELSE Ephemeral

\* The position taken from the counter alone, without the output index.
note_commitment_tree_position_NoIndex(tree_size, output_idx) ==
    tree_size

\* Position::from(u64::from(sapling_commitment_tree_size + output_idx))
note_commitment_tree_position(tree_size, output_idx) ==
    U32Add(tree_size, output_idx)

\* The counter advanced by one per transaction.
advance_tree_size_PerTx(tree_size, tx_outputs_len) ==
    U32Add(tree_size, 1)

\* sapling_commitment_tree_size += tx_outputs_len
advance_tree_size(tree_size, tx_outputs_len) ==
    U32Add(tree_size, tx_outputs_len)

Node_from_cmu(cmu) == cmu

\* The nullifier derived at the counter's value, without the output's index.
shielded_outputs_NfAtTreeSize(tx, decrypted, accounts, tree_size) ==
    Flatten([i \in 1..Len(tx.outputs) |->
        IF IsSome(decrypted[i])
        THEN LET d == Unwrap(decrypted[i])
                 position == note_commitment_tree_position(tree_size, i - 1)
             IN Some([index |-> i - 1,
                      cmu |-> tx.outputs[i].cmu,
                      account |-> d.account,
                      note |-> d.note,
                      is_change |-> d.account \in accounts,
                      note_commitment_tree_position |-> position,
                      nf |-> nf(d.scope, d.nk, d.note, tree_size),
                      recipient_key_scope |-> d.scope])
        ELSE None])

\* One WalletSaplingOutput per decrypted output, in output order.
shielded_outputs(tx, decrypted, spent_from_accounts, tree_size) ==
    Flatten([i \in 1..Len(tx.outputs) |->
        IF IsSome(decrypted[i])
        THEN LET d == Unwrap(decrypted[i])
                 position == note_commitment_tree_position(tree_size, i - 1)
             IN Some([index |-> i - 1,
                      cmu |-> tx.outputs[i].cmu,
                      account |-> d.account,
                      note |-> d.note,
                      is_change |-> d.account \in spent_from_accounts,
                      note_commitment_tree_position |-> position,
                      nf |-> nf(d.scope, d.nk, d.note, position),
                      recipient_key_scope |-> d.scope])
        ELSE None])

\* The (node, retention) pair of every output of the transaction.
tx_note_commitments(tx, decrypted, idx, compact_block_tx_count, cur_height) ==
    [i \in 1..Len(tx.outputs) |->
        [node |-> Node_from_cmu(tx.outputs[i].cmu),
         retention |-> retention(IsSome(decrypted[i]),
                                 is_checkpoint(i - 1, Len(tx.outputs), idx,
                                               compact_block_tx_count),
                                 cur_height)]]

\* The accounts of the spends of every wallet transaction found so far in
\* the block, not only of this transaction.
spent_from_accounts_WholeBlock(sapling_spends) ==
    {sapling_spends[i].account : i \in 1..Len(sapling_spends)}
    \cup UNION {{wtxs[w].sapling_spends[i].account :
                    i \in 1..Len(wtxs[w].sapling_spends)} : w \in 1..Len(wtxs)}

\* sapling_spends.iter().map(|spend| spend.account()).collect::<HashSet<_>>()
spent_from_accounts(sapling_spends) ==
    {sapling_spends[i].account : i \in 1..Len(sapling_spends)}

\* An entry pushed only for a transaction with unlinked nullifiers.
nullifier_map_push_SkipEmpty(nullifier_map, tx, idx, unlinked_nullifiers) ==
    IF unlinked_nullifiers = <<>> THEN nullifier_map
    ELSE Append(nullifier_map,
                [txid |-> tx.txid, index |-> tx.index,
                 nullifiers |-> unlinked_nullifiers])

\* sapling_nullifier_map.push((txid, tx_index, sapling_unlinked_nullifiers))
nullifier_map_push(nullifier_map, tx, idx, unlinked_nullifiers) ==
    Append(nullifier_map,
           [txid |-> tx.txid, index |-> tx.index,
            nullifiers |-> unlinked_nullifiers])

\* A WalletTx pushed only for a transaction with wallet outputs.
has_wallet_data_OutputsOnly(sapling_spends, outputs) ==
    outputs # <<>>

\* !(sapling_spends.is_empty() && shielded_outputs.is_empty())
has_wallet_data(sapling_spends, outputs) ==
    ~(sapling_spends = <<>> /\ outputs = <<>>)

---------------------------------------------------------------------------
\* The post-block audit.

\* The audit reporting the declared and the computed size in each other's place.
tree_size_audit_Swapped(chain_metadata, tree_size, cur_height) ==
    IF IsSome(chain_metadata)
       /\ Unwrap(chain_metadata).sapling_commitment_tree_size # tree_size
    THEN Some(TreeSizeMismatch("Sapling", cur_height, tree_size,
                               Unwrap(chain_metadata).sapling_commitment_tree_size))
    ELSE None

tree_size_audit(chain_metadata, tree_size, cur_height) ==
    IF IsSome(chain_metadata)
       /\ Unwrap(chain_metadata).sapling_commitment_tree_size # tree_size
    THEN Some(TreeSizeMismatch("Sapling", cur_height,
                               Unwrap(chain_metadata).sapling_commitment_tree_size,
                               tree_size))
    ELSE None

ScannedBlock(cur_height, cur_hash, transactions, final_tree_size, commitments, nullifier_map) ==
    [height |-> cur_height,
     hash |-> cur_hash,
     transactions |-> transactions,
     sapling |-> [final_tree_size |-> final_tree_size,
                  commitments |-> commitments,
                  nullifier_map |-> nullifier_map]]

---------------------------------------------------------------------------
\* The Orchard track, compiled in by the "orchard" feature: a second counter
\* seeded, advanced and audited like the Sapling one, over the actions of
\* the block; its bundle carries the counter and two empty lists.

\* block.vtx.iter().map(|tx| tx.actions.len()).sum()
RECURSIVE orchard_action_count(_)
orchard_action_count(vtx) ==
    IF vtx = <<>> THEN 0
    ELSE Len(Head(vtx).actions) + orchard_action_count(Tail(vtx))

\* No chain metadata: zero below Nu5 activation or with activation unset.
orchard_activation_tree_size(activation, cur_height) ==
    IF ~IsSome(activation) THEN Ok(0)
    ELSE IF cur_height < Unwrap(activation) THEN Ok(0)
    ELSE Err(TreeSizeUnknown("Orchard", cur_height))

\* Chain metadata present: the declared end size minus the block's actions.
orchard_chain_metadata_tree_size(m, blk) ==
    LET d == checked_sub(m.orchard_commitment_tree_size,
                         orchard_action_count(blk.vtx)) IN
    IF IsSome(d) THEN Ok(Unwrap(d))
    ELSE Err(TreeSizeInvalid("Orchard", blk.height))

\* prior_block_metadata.and_then(|m| m.orchard_tree_size())
prior_orchard_tree_size(prior) ==
    IF IsSome(prior) THEN Unwrap(prior).orchard_tree_size ELSE None

\* The Orchard counter seeded from the Sapling size of the prior metadata.
initial_orchard_tree_size_SaplingPrior(activation, blk, prior) ==
    IF IsSome(prior_sapling_tree_size(prior))
    THEN Ok(Unwrap(prior_sapling_tree_size(prior)))
    ELSE IF IsSome(blk.chain_metadata)
    THEN orchard_chain_metadata_tree_size(Unwrap(blk.chain_metadata), blk)
    ELSE orchard_activation_tree_size(activation, blk.height)

initial_orchard_tree_size(activation, blk, prior) ==
    IF IsSome(prior_orchard_tree_size(prior))
    THEN Ok(Unwrap(prior_orchard_tree_size(prior)))
    ELSE IF IsSome(blk.chain_metadata)
    THEN orchard_chain_metadata_tree_size(Unwrap(blk.chain_metadata), blk)
    ELSE orchard_activation_tree_size(activation, blk.height)

\* The Orchard counter left where the resolver put it.
advance_orchard_tree_size_Unchanged(tree_size, tx_actions_len) ==
    tree_size

\* orchard_commitment_tree_size += tx_actions_len
advance_orchard_tree_size(tree_size, tx_actions_len) ==
    U32Add(tree_size, tx_actions_len)

\* if chain_meta.orchard_commitment_tree_size != orchard_commitment_tree_size
orchard_tree_size_audit(chain_metadata, tree_size, cur_height) ==
    IF IsSome(chain_metadata)
       /\ Unwrap(chain_metadata).orchard_commitment_tree_size # tree_size
    THEN Some(TreeSizeMismatch("Orchard", cur_height,
                               Unwrap(chain_metadata).orchard_commitment_tree_size,
                               tree_size))
    ELSE None

\* The Sapling audit, then the Orchard one when compiled in.
block_audit(feature, chain_metadata, sapling_tree_size, orchard_tree_size, cur_height) ==
    LET e == tree_size_audit(chain_metadata, sapling_tree_size, cur_height) IN
    IF IsSome(e) \/ ~feature THEN e
    ELSE orchard_tree_size_audit(chain_metadata, orchard_tree_size, cur_height)

\* An Orchard bundle that lists a commitment per action of the block.
orchard_bundle_Collected(blk, final_tree_size) ==
    [final_tree_size |-> final_tree_size,
     nullifier_map |-> [p \in 1..Len(blk.vtx) |->
                           [txid |-> blk.vtx[p].txid, index |-> blk.vtx[p].index,
                            nullifiers |-> blk.vtx[p].actions]],
     commitments |-> Flatten([p \in 1..Len(blk.vtx) |->
                                 IF blk.vtx[p].actions = <<>> THEN None
                                 ELSE Some(blk.vtx[p].txid)])]

\* ScannedBundles::new(orchard_commitment_tree_size, vec![], vec![])
orchard_bundle(blk, final_tree_size) ==
    [final_tree_size |-> final_tree_size,
     nullifier_map |-> <<>>,
     commitments |-> <<>>]

\* ScannedBlock::from_parts(.., sapling, #[cfg(feature = "orchard")] orchard)
with_orchard(feature, scanned, blk, final_tree_size) ==
    IF feature
    THEN scanned @@ [orchard |-> orchard_bundle(blk, final_tree_size)]
    ELSE scanned

\* An error returned together with what the loop had collected.
scan_result_PartialOnError(audit, scanned) ==
    IF IsSome(audit)
    THEN [ok |-> FALSE, err |-> Unwrap(audit), val |-> scanned]
    ELSE Ok(scanned)

\* return Err(ScanError::TreeSizeMismatch {..}) or Ok(ScannedBlock::from_parts(..))
scan_result(audit, scanned) ==
    IF IsSome(audit) THEN Err(Unwrap(audit)) ELSE Ok(scanned)

---------------------------------------------------------------------------
\* The steps of scan_block_with_runner.

\* if let Some(scan_error) = check_hash_continuity(..) { return Err(scan_error) }
CheckContinuity ==
    /\ pc = "continuity"
    /\ LET e == check_hash_continuity(block, prior_block_metadata) IN
       IF IsSome(e)
       THEN /\ result' = Some(Err(Unwrap(e)))
            /\ pc' = "done"
       ELSE /\ result' = result
            /\ pc' = "tree_size"
    /\ UNCHANGED <<orchard_feature, nu5_activation,
                   orchard_commitment_tree_size, scanned_blocks>>
    /\ UNCHANGED <<params, block, prior_block_metadata, sapling_keys,
                   sapling_nullifiers, sapling_batch_runner, start_tree_size,
                   sapling_commitment_tree_size, tx_idx, wtxs,
                   sapling_nullifier_map, sapling_note_commitments>>

\* let mut sapling_commitment_tree_size = ... ?;
ResolveTreeSize ==
    /\ pc = "tree_size"
    /\ LET r == initial_sapling_tree_size(params, block, prior_block_metadata) IN
       IF r.ok
       THEN /\ sapling_commitment_tree_size' = r.val
            /\ start_tree_size' = Some(r.val)
            /\ result' = result
            /\ pc' = IF orchard_feature THEN "orchard_tree_size" ELSE "transactions"
       ELSE /\ result' = Some(Err(r.err))
            /\ pc' = "done"
            /\ UNCHANGED <<sapling_commitment_tree_size, start_tree_size>>
    /\ UNCHANGED <<orchard_feature, nu5_activation,
                   orchard_commitment_tree_size, scanned_blocks>>
    /\ UNCHANGED <<params, block, prior_block_metadata, sapling_keys,
                   sapling_nullifiers, sapling_batch_runner, tx_idx, wtxs,
                   sapling_nullifier_map, sapling_note_commitments>>

\* One iteration of `for (tx_idx, tx) in block.vtx.into_iter().enumerate()`.
ScanTx ==
    /\ pc = "transactions"
    /\ tx_idx < Len(block.vtx)
    /\ IsSome(sapling_batch_runner)
           => results_ready(Unwrap(sapling_batch_runner), block.hash,
                            block.vtx[tx_idx + 1].txid)
    /\ LET tx == block.vtx[tx_idx + 1]
           checked == check_nullifiers(tx.spends, sapling_nullifiers)
           sapling_spends == checked[1]
           sapling_unlinked_nullifiers == checked[2]
           decrypted ==
               IF IsSome(sapling_batch_runner)
               THEN decrypted_batched(
                        sapling_keys,
                        collect_results(Unwrap(sapling_batch_runner),
                                        block.hash, tx.txid),
                        tx.txid, Len(tx.outputs))
               ELSE decrypted_inline(sapling_keys, tx.outputs)
           outputs == shielded_outputs(tx, decrypted,
                                       spent_from_accounts(sapling_spends),
                                       sapling_commitment_tree_size)
       IN /\ sapling_batch_runner' =
                 IF IsSome(sapling_batch_runner)
                 THEN Some(after_collect_results(Unwrap(sapling_batch_runner),
                                                 block.hash, tx.txid))
                 ELSE sapling_batch_runner
          /\ sapling_nullifier_map' =
                 nullifier_map_push(sapling_nullifier_map, tx, tx_idx,
                                    sapling_unlinked_nullifiers)
          /\ sapling_note_commitments' =
                 sapling_note_commitments \o
                 tx_note_commitments(tx, decrypted, tx_idx, Len(block.vtx),
                                     block.height)
          /\ wtxs' =
                 IF has_wallet_data(sapling_spends, outputs)
                 THEN Append(wtxs, [txid |-> tx.txid, index |-> tx.index,
                                    sapling_spends |-> sapling_spends,
                                    sapling_outputs |-> outputs])
                 ELSE wtxs
          /\ sapling_commitment_tree_size' =
                 advance_tree_size(sapling_commitment_tree_size, Len(tx.outputs))
          /\ orchard_commitment_tree_size' =
                 IF orchard_feature
                 THEN advance_orchard_tree_size(orchard_commitment_tree_size,
                                                Len(tx.actions))
                 ELSE orchard_commitment_tree_size
    /\ tx_idx' = tx_idx + 1
    /\ UNCHANGED <<orchard_feature, nu5_activation, scanned_blocks>>
    /\ UNCHANGED <<params, block, prior_block_metadata, sapling_keys,
                   sapling_nullifiers, pc, start_tree_size, result>>

\* After the loop: the audit, then Ok(ScannedBlock::from_parts(..)).
Finish ==
    /\ pc = "transactions"
    /\ tx_idx = Len(block.vtx)
    /\ LET e == block_audit(orchard_feature, block.chain_metadata,
                            sapling_commitment_tree_size,
                            orchard_commitment_tree_size, block.height)
           scanned == ScannedBlock(block.height, block.hash, wtxs,
                                   sapling_commitment_tree_size,
                                   sapling_note_commitments,
                                   sapling_nullifier_map)
       IN result' =
              Some(scan_result(e, with_orchard(orchard_feature, scanned, block,
                                               orchard_commitment_tree_size)))
    /\ pc' = "done"
    /\ UNCHANGED <<orchard_feature, nu5_activation,
                   orchard_commitment_tree_size, scanned_blocks>>
    /\ UNCHANGED <<params, block, prior_block_metadata, sapling_keys,
                   sapling_nullifiers, sapling_batch_runner, start_tree_size,
                   sapling_commitment_tree_size, tx_idx, wtxs,
                   sapling_nullifier_map, sapling_note_commitments>>

Next ==
    \/ CheckContinuity
    \/ ResolveTreeSize
    \/ ScanTx
    \/ Finish

\* #[cfg(feature = "orchard")] let mut orchard_commitment_tree_size = ... ?;
ResolveOrchardTreeSize ==
    /\ pc = "orchard_tree_size"
    /\ LET r == initial_orchard_tree_size(nu5_activation, block,
                                          prior_block_metadata) IN
       IF r.ok
       THEN /\ orchard_commitment_tree_size' = r.val
            /\ result' = result
            /\ pc' = "transactions"
       ELSE /\ result' = Some(Err(r.err))
            /\ pc' = "done"
            /\ UNCHANGED orchard_commitment_tree_size
    /\ UNCHANGED <<orchard_feature, nu5_activation, scanned_blocks>>
    /\ UNCHANGED <<params, block, prior_block_metadata, sapling_keys,
                   sapling_nullifiers, sapling_batch_runner, start_tree_size,
                   sapling_commitment_tree_size, tx_idx, wtxs,
                   sapling_nullifier_map, sapling_note_commitments>>

NextOrchard ==
    \/ Next
    \/ ResolveOrchardTreeSize

\* The caller's pre-pass before a batched scan:
\* add_block_to_runner(&params, block.clone(), &mut runner); runner.flush();
AddBlockToRunner ==
    /\ pc = "add_block"
    /\ sapling_batch_runner' =
           Some(add_block_to_runner(block, Unwrap(sapling_batch_runner)))
    /\ pc' = "flush"
    /\ UNCHANGED <<orchard_feature, nu5_activation,
                   orchard_commitment_tree_size, scanned_blocks>>
    /\ UNCHANGED <<params, block, prior_block_metadata, sapling_keys,
                   sapling_nullifiers, start_tree_size,
                   sapling_commitment_tree_size, tx_idx, wtxs,
                   sapling_nullifier_map, sapling_note_commitments, result>>

Flush ==
    /\ pc = "flush"
    /\ sapling_batch_runner' = Some(flush(Unwrap(sapling_batch_runner)))
    /\ pc' = "continuity"
    /\ UNCHANGED <<orchard_feature, nu5_activation,
                   orchard_commitment_tree_size, scanned_blocks>>
    /\ UNCHANGED <<params, block, prior_block_metadata, sapling_keys,
                   sapling_nullifiers, start_tree_size,
                   sapling_commitment_tree_size, tx_idx, wtxs,
                   sapling_nullifier_map, sapling_note_commitments, result>>

\* A worker finishes one of the batches handed to it, whichever it is and
\* wherever the caller and the scanner are.
RunBatch ==
    /\ IsSome(sapling_batch_runner)
    /\ \E batch \in Unwrap(sapling_batch_runner).running :
           sapling_batch_runner' =
               Some(run_batch(Unwrap(sapling_batch_runner), batch))
    /\ UNCHANGED <<orchard_feature, nu5_activation,
                   orchard_commitment_tree_size, scanned_blocks>>
    /\ UNCHANGED <<params, block, prior_block_metadata, sapling_keys,
                   sapling_nullifiers, pc, start_tree_size,
                   sapling_commitment_tree_size, tx_idx, wtxs,
                   sapling_nullifier_map, sapling_note_commitments, result>>

NextBatch ==
    \/ Next
    \/ AddBlockToRunner
    \/ Flush
    \/ RunBatch

---------------------------------------------------------------------------
\* scan_block: the whole scan without a runner, as a function of its inputs.

\* The loop from transaction idx (from 0) on; st holds the loop's variables.
RECURSIVE scan_txs(_, _, _, _, _)
scan_txs(blk, keys, nullifiers, idx, st) ==
    IF idx = Len(blk.vtx) THEN st
    ELSE LET tx == blk.vtx[idx + 1]
             checked == check_nullifiers(tx.spends, nullifiers)
             decrypted == decrypted_inline(keys, tx.outputs)
             outputs == shielded_outputs(tx, decrypted,
                                         spent_from_accounts(checked[1]),
                                         st.tree_size)
         IN scan_txs(blk, keys, nullifiers, idx + 1,
                [tree_size |-> advance_tree_size(st.tree_size, Len(tx.outputs)),
                 wtxs |-> IF has_wallet_data(checked[1], outputs)
                          THEN Append(st.wtxs,
                                      [txid |-> tx.txid, index |-> tx.index,
                                       sapling_spends |-> checked[1],
                                       sapling_outputs |-> outputs])
                          ELSE st.wtxs,
                 nullifier_map |-> nullifier_map_push(st.nullifier_map, tx,
                                                      idx, checked[2]),
                 commitments |-> st.commitments \o
                                 tx_note_commitments(tx, decrypted, idx,
                                                     Len(blk.vtx), blk.height)])

scan_block(prms, blk, keys, nullifiers, prior) ==
    LET e == check_hash_continuity(blk, prior)
        r == initial_sapling_tree_size(prms, blk, prior)
        st == scan_txs(blk, keys, nullifiers, 0,
                       [tree_size |-> r.val, wtxs |-> <<>>,
                        nullifier_map |-> <<>>, commitments |-> <<>>])
        a == tree_size_audit(blk.chain_metadata, st.tree_size, blk.height)
    IN IF IsSome(e) THEN Err(Unwrap(e))
       ELSE IF ~r.ok THEN Err(r.err)
       ELSE scan_result(a, ScannedBlock(blk.height, blk.hash, st.wtxs,
                                        st.tree_size, st.commitments,
                                        st.nullifier_map))

---------------------------------------------------------------------------
\* Inputs of a scan.

Heights == 0..MaxHeight
Hashes == {0, 1}
TreeSizes == 0..MaxTreeSize

OptionOf(S) == {None} \cup {Some(x) : x \in S}
SeqsUpTo(S, n) == UNION {[1..k -> S] : k \in 0..n}

\* A CompactTx at position i (from 1) of its block: txid i, declared index
\* i - 1, one spend revealing nullifier i, and one CompactSaplingOutput per
\* element of `recipients`, with a commitment that names its place.
CompactTx(i, recipients) ==
    [txid |-> i,
     index |-> i - 1,
     spends |-> << [nf |-> i] >>,
     outputs |-> [j \in 1..Len(recipients) |->
                     [cmu |-> 10 * i + j, recipient |-> recipients[j]]]]

\* A CompactBlock; its own hash differs from its parent's.
CompactBlock(height, prev_hash, shape, chain_metadata) ==
    [height |-> height,
     hash |-> CHOOSE h \in Hashes : h # prev_hash,
     prev_hash |-> prev_hash,
     vtx |-> [i \in 1..Len(shape) |-> CompactTx(i, shape[i])],
     chain_metadata |-> chain_metadata]

ChainMetadata(size) == [sapling_commitment_tree_size |-> size]

BlockMetadata(height, hash, size) ==
    [block_height |-> height, block_hash |-> hash, sapling_tree_size |-> size]

\* One account holding a full viewing key; one tracked nullifier, the one the
\* second transaction of a block reveals.
WalletKeys == << [account |-> 1, key |-> [kind |-> "dfvk", id |-> 1]] >>
TrackedNullifiers == << [account |-> 1, nf |-> 2] >>

\* The state at the call.  Thresholds holds None for a scan without a
\* runner and Some(t) for a scan with a runner of batch size threshold t,
\* registered with the ivks of the scan's keys; the caller of a batched scan
\* first feeds the runner.
InitScan(Params, Blocks, Priors, KeySets, Tables, Thresholds) ==
    /\ params \in Params
    /\ block \in Blocks
    /\ prior_block_metadata \in Priors
    /\ sapling_keys \in KeySets
    /\ sapling_nullifiers \in Tables
    /\ \E t \in Thresholds :
         /\ sapling_batch_runner =
                IF IsSome(t)
                THEN Some(BatchRunner_new(Unwrap(t), tagged_ivks(sapling_keys)))
                ELSE None
         /\ pc = IF IsSome(t) THEN "add_block" ELSE "continuity"
    /\ start_tree_size = None
    /\ sapling_commitment_tree_size = 0
    /\ tx_idx = 0
    /\ wtxs = <<>>
    /\ sapling_nullifier_map = <<>>
    /\ sapling_note_commitments = <<>>
    /\ result = None
    /\ orchard_feature = FALSE
    /\ nu5_activation = None
    /\ orchard_commitment_tree_size = 0
    /\ scanned_blocks = <<>>

InitWith(Params, Blocks, Priors) ==
    /\ params \in Params
    /\ block \in Blocks
    /\ prior_block_metadata \in Priors
    /\ sapling_keys = WalletKeys
    /\ sapling_nullifiers = TrackedNullifiers
    /\ sapling_batch_runner = None
    /\ pc = "continuity"
    /\ start_tree_size = None
    /\ sapling_commitment_tree_size = 0
    /\ tx_idx = 0
    /\ wtxs = <<>>
    /\ sapling_nullifier_map = <<>>
    /\ sapling_note_commitments = <<>>
    /\ result = None
    /\ orchard_feature = FALSE
    /\ nu5_activation = None
    /\ orchard_commitment_tree_size = 0
    /\ scanned_blocks = <<>>

\* Continuity and tree sizes: every height, parent hash, prior metadata,
\* chain metadata and activation, over blocks whose outputs are not the
\* wallet's.
Init ==
    InitWith({None, Some(1)},
             {CompactBlock(h, p, shape, cm) :
                 h \in Heights, p \in Hashes,
                 shape \in SeqsUpTo(SeqsUpTo({0}, MaxOutputs), MaxTxs),
                 cm \in OptionOf({ChainMetadata(n) : n \in TreeSizes})},
             OptionOf({BlockMetadata(h, 0, n) :
                 h \in Heights, n \in OptionOf(TreeSizes)}))

Spec == Init /\ [][Next]_vars

\* Outputs: every block shape with outputs that are and are not the wallet's
\* (recipient 1 is the external ivk of the wallet's key), at height 1 on a
\* prior block 0, with and without tree sizes.
InitOutputs ==
    InitWith({None, Some(1)},
             {CompactBlock(1, p, shape, cm) :
                 p \in Hashes,
                 shape \in SeqsUpTo(SeqsUpTo({0, 1}, MaxOutputs), MaxTxs),
                 cm \in {None, Some(ChainMetadata(MaxTreeSize))}},
             OptionOf({BlockMetadata(0, 0, n) : n \in OptionOf(TreeSizes)}))

SpecOutputs == InitOutputs /\ [][Next]_vars

\* A CompactTx at position i with the given revealed nullifiers and output
\* recipients.  Its declared index is its place in the full block, of which
\* the compact block holds every second transaction.
CompactTxOf(i, shape) ==
    [txid |-> i,
     index |-> 2 * i - 1,
     spends |-> [j \in 1..Len(shape.spends) |-> [nf |-> shape.spends[j]]],
     outputs |-> [j \in 1..Len(shape.outputs) |->
                     [cmu |-> 10 * i + j, recipient |-> shape.outputs[j]]]]

CompactBlockOf(height, prev_hash, shapes, chain_metadata) ==
    [height |-> height,
     hash |-> CHOOSE h \in Hashes : h # prev_hash,
     prev_hash |-> prev_hash,
     vtx |-> [i \in 1..Len(shapes) |-> CompactTxOf(i, shapes[i])],
     chain_metadata |-> chain_metadata]

\* The nullifier matcher: every tracked table of up to MaxTracked entries
\* over two accounts (0 is A::default()) and two nullifiers, one of them
\* tracked under both accounts; every block of up to MaxTxs transactions
\* revealing up to MaxSpends of the nullifiers 1 and 2 each.
MaxTracked == 2
MaxSpends == 2

TrackedEntries ==
    {[account |-> 0, nf |-> 1], [account |-> 1, nf |-> 1], [account |-> 1, nf |-> 2]}

InitNullifiers ==
    InitScan({None},
             {CompactBlockOf(1, 0, shapes, None) :
                 shapes \in SeqsUpTo({[spends |-> sp, outputs |-> <<>>] :
                                         sp \in SeqsUpTo({1, 2}, MaxSpends)},
                                     MaxTxs)},
             {None},
             {WalletKeys},
             SeqsUpTo(TrackedEntries, MaxTracked),
             {None})

SpecNullifiers == InitNullifiers /\ [][Next]_vars

\* Spends and outputs together: two accounts with a full viewing key each
\* (ivks 1, 2 and 3, 4) or an incoming viewing key each, one tracked nullifier per account, nullifier 3
\* tracked by nobody, recipient 0 nobody's; every block of up to MaxTxs
\* transactions, each with one of these spend lists and one of these
\* output lists.
TwoAccountKeys ==
    << [account |-> 1, key |-> [kind |-> "dfvk", id |-> 1]],
       [account |-> 2, key |-> [kind |-> "dfvk", id |-> 2]] >>

\* The same two accounts holding an incoming viewing key each (ivks 1 and 3).
TwoAccountIvks ==
    << [account |-> 1, key |-> [kind |-> "ivk", id |-> 1]],
       [account |-> 2, key |-> [kind |-> "ivk", id |-> 3]] >>

TwoAccountNullifiers == << [account |-> 1, nf |-> 1], [account |-> 2, nf |-> 2] >>

WalletSpendLists == {<<>>, <<1>>, <<2>>, <<3>>, <<3, 2, 1>>}
WalletOutputLists == {<<>>, <<0>>, <<1>>, <<3>>, <<3, 0, 2>>}

InitWallet ==
    InitScan({None},
             {CompactBlockOf(1, 0, shapes, None) :
                 shapes \in SeqsUpTo({[spends |-> sp, outputs |-> out] :
                                         sp \in WalletSpendLists,
                                         out \in WalletOutputLists},
                                     MaxTxs)},
             {Some(BlockMetadata(0, 0, Some(n))) : n \in {0, MaxTreeSize}},
             {TwoAccountKeys, TwoAccountIvks},
             {TwoAccountNullifiers},
             {None})

SpecWallet == InitWallet /\ [][Next]_vars

\* The two modes: scans without a runner and with a runner of batch size
\* threshold 1 (every transaction with outputs is its own batch) and 10
\* (the whole block is one batch, as in the tests), over one key, two keys
\* of two accounts and two keys of one account; blocks of up to MaxTxs
\* transactions, each with one of these output lists (1 is the wallet's, 0
\* nobody's), with and without chain metadata and a matching parent hash.
BatchSizeThresholds == {1, 10}

BatchOutputLists == {<<>>, <<1>>, <<0, 1>>, <<1, 0>>}

BatchKeySets ==
    { WalletKeys,
      << [account |-> 2, key |-> [kind |-> "dfvk", id |-> 2]],
         [account |-> 1, key |-> [kind |-> "dfvk", id |-> 1]] >>,
      << [account |-> 1, key |-> [kind |-> "dfvk", id |-> 1]],
         [account |-> 1, key |-> [kind |-> "dfvk", id |-> 2]] >> }

InitBatch ==
    InitScan({None},
             {CompactBlock(1, p, shape, cm) :
                 p \in Hashes,
                 shape \in SeqsUpTo(BatchOutputLists, MaxTxs),
                 cm \in {None, Some(ChainMetadata(MaxTreeSize))}},
             {None, Some(BlockMetadata(0, 0, Some(1)))},
             BatchKeySets,
             {TrackedNullifiers},
             OptionOf(BatchSizeThresholds))

SpecBatch == InitBatch /\ [][NextBatch]_vars

---------------------------------------------------------------------------
\* What the properties below speak of.

HasPrior == IsSome(prior_block_metadata)
Prior == Unwrap(prior_block_metadata)
HeightFollows == block.height = Prior.block_height + 1
HashFollows == block.prev_hash = Prior.block_hash
ContinuityHolds == ~HasPrior \/ (HeightFollows /\ HashFollows)
PriorHasTreeSize == HasPrior /\ IsSome(Prior.sapling_tree_size)
HasChainMetadata == IsSome(block.chain_metadata)
DeclaredSize == Unwrap(block.chain_metadata).sapling_commitment_tree_size
Returned(e) == pc = "done" /\ result = Some(Err(e))
Succeeded == pc = "done" /\ IsSome(result) /\ Unwrap(result).ok
Scanned == Unwrap(result).val
SeedResolved == pc \in {"transactions", "done"} /\ ContinuityHolds

\* The number of outputs of the first n transactions of the block.
RECURSIVE OutputsOfFirst(_)
OutputsOfFirst(n) ==
    IF n = 0 THEN 0 ELSE OutputsOfFirst(n - 1) + Len(block.vtx[n].outputs)

BlockOutputs == OutputsOfFirst(Len(block.vtx))

---------------------------------------------------------------------------
\* C1: with prior metadata present and block.height # prior.height + 1 the
\* scan returns BlockHeightDiscontinuity{prev_height = prior.height,
\* new_height = block.height}, whatever the parent hash says.
C1_HeightDiscontinuity ==
    (pc # "continuity" /\ HasPrior /\ ~HeightFollows)
        => Returned(BlockHeightDiscontinuity(Prior.block_height, block.height))

\* A discontinuous height reported although the parent hash is wrong too.
C1_Witness ==
    /\ HasPrior /\ ~HeightFollows /\ ~HashFollows
    /\ Returned(BlockHeightDiscontinuity(Prior.block_height, block.height))

\* C2: with prior metadata present, block.height = prior.height + 1 and
\* block.prev_hash # prior.hash the scan returns PrevHashMismatch at the
\* block's height, which is_continuity_error classifies as a continuity error.
C2_PrevHashMismatch ==
    (pc # "continuity" /\ HasPrior /\ HeightFollows /\ ~HashFollows)
        => /\ Returned(PrevHashMismatch(block.height))
           /\ is_continuity_error(Unwrap(result).err)

C2_Witness ==
    /\ HasPrior /\ HeightFollows /\ ~HashFollows
    /\ Returned(PrevHashMismatch(block.height))
    /\ block.height = 1

\* C3: seed rule 1.  Once the resolver has run, a Sapling tree size carried
\* by the prior metadata is the start size, whatever the block's chain
\* metadata and the activation height are.
C3_SeedFromPrior ==
    (SeedResolved /\ PriorHasTreeSize)
        => start_tree_size = Some(Unwrap(Prior.sapling_tree_size))

\* The prior size used although the chain metadata declares less than the
\* block's outputs and the block is at or above activation.
C3_Witness ==
    /\ SeedResolved /\ PriorHasTreeSize
    /\ HasChainMetadata /\ DeclaredSize < BlockOutputs
    /\ IsSome(params) /\ block.height >= Unwrap(params)
    /\ start_tree_size = Some(Unwrap(Prior.sapling_tree_size))
    /\ Unwrap(start_tree_size) > DeclaredSize

\* C4: seed rule 2.  Once the resolver has run without a prior Sapling tree
\* size on a block with chain metadata, the start size is the declared end
\* size minus the block's outputs, and a declared end size below the output
\* count returns TreeSizeInvalid{Sapling, block.height}.
C4_SeedFromChainMetadata ==
    (SeedResolved /\ ~PriorHasTreeSize /\ HasChainMetadata)
        => IF DeclaredSize >= BlockOutputs
           THEN start_tree_size = Some(DeclaredSize - BlockOutputs)
           ELSE /\ Returned(TreeSizeInvalid("Sapling", block.height))
                /\ start_tree_size = None

\* Three outputs, a declared size of 1, no prior metadata.
C4_Witness ==
    /\ ~HasPrior /\ HasChainMetadata
    /\ BlockOutputs = 3 /\ DeclaredSize = 1
    /\ Returned(TreeSizeInvalid("Sapling", block.height))

\* C5: seed rules 3 and 4.  Once the resolver has run with neither a prior
\* Sapling tree size nor chain metadata, the start size is 0 if Sapling
\* activation is unset or the block is strictly below it, and otherwise the
\* scan returns TreeSizeUnknown{Sapling, block.height}.
C5_SeedFromActivation ==
    (SeedResolved /\ ~PriorHasTreeSize /\ ~HasChainMetadata)
        => IF ~IsSome(params) \/ block.height < Unwrap(params)
           THEN start_tree_size = Some(0)
           ELSE /\ Returned(TreeSizeUnknown("Sapling", block.height))
                /\ start_tree_size = None

\* The block at the activation height itself.
C5_Witness ==
    /\ ~PriorHasTreeSize /\ ~HasChainMetadata
    /\ IsSome(params) /\ block.height = Unwrap(params)
    /\ Returned(TreeSizeUnknown("Sapling", block.height))

\* C6: the post-block audit.  A scan that got past the resolver on a block
\* with chain metadata returns TreeSizeMismatch{Sapling, block.height, given =
\* declared size, computed = start size + outputs of the block} when the two
\* differ, and succeeds when they are equal.
C6_PostBlockAudit ==
    (pc = "done" /\ IsSome(start_tree_size) /\ HasChainMetadata)
        => IF DeclaredSize # Unwrap(start_tree_size) + BlockOutputs
           THEN Returned(TreeSizeMismatch("Sapling", block.height, DeclaredSize,
                                          Unwrap(start_tree_size) + BlockOutputs))
           ELSE Succeeded

\* Two outputs on a start size of 0 taken from the prior metadata, against a
\* larger declared size.
C6_Witness ==
    /\ PriorHasTreeSize /\ start_tree_size = Some(0)
    /\ HasChainMetadata /\ BlockOutputs = 2 /\ DeclaredSize = 3
    /\ Returned(TreeSizeMismatch("Sapling", block.height, 3, 2))

\* C7: a successful scan returns final_tree_size = start size + the number
\* of outputs of all transactions of the block.
C7_FinalTreeSize ==
    Succeeded
        => Scanned.sapling.final_tree_size = Unwrap(start_tree_size) + BlockOutputs

\* Two transactions with three outputs between them on a non-zero start size.
C7_Witness ==
    /\ Succeeded
    /\ Len(block.vtx) = 2 /\ BlockOutputs = 3
    /\ start_tree_size = Some(2)
    /\ Scanned.sapling.final_tree_size = 5

\* The position in the block (from 1) of the transaction with this txid.
TxPosition(txid) == CHOOSE i \in 1..Len(block.vtx) : block.vtx[i].txid = txid

\* C8: every emitted WalletSaplingOutput has note_commitment_tree_position =
\* start size + outputs of all earlier transactions of the block + its index
\* within its own transaction.
C8_TreePosition ==
    \A w \in 1..Len(wtxs) : \A o \in 1..Len(wtxs[w].sapling_outputs) :
        LET out == wtxs[w].sapling_outputs[o] IN
        out.note_commitment_tree_position =
            Unwrap(start_tree_size)
            + OutputsOfFirst(TxPosition(wtxs[w].txid) - 1)
            + out.index

\* A returned wallet output that is the second output of the second
\* transaction, behind two outputs of the first, on a start size of 3.
C8_Witness ==
    /\ Succeeded /\ start_tree_size = Some(3)
    /\ Len(block.vtx) = 2 /\ Len(block.vtx[1].outputs) = 2
    /\ \E w \in 1..Len(Scanned.transactions) :
         /\ Scanned.transactions[w].txid = block.vtx[2].txid
         /\ \E o \in 1..Len(Scanned.transactions[w].sapling_outputs) :
              /\ Scanned.transactions[w].sapling_outputs[o].index = 1
              /\ Scanned.transactions[w].sapling_outputs[o].note_commitment_tree_position = 6

\* The positions of the commitments list that hold a Checkpoint retention.
CheckpointPositions(commitments) ==
    {i \in 1..Len(commitments) : commitments[i].retention.kind = "Checkpoint"}

\* C9: after a successful scan the commitments list is as long as the block
\* has outputs, exactly one of its elements has a Checkpoint retention, and
\* that element is the last.  (Stated for blocks with at least one output: an
\* empty list has no element to hold the checkpoint.)
C9_OneCheckpointLast ==
    Succeeded
        => /\ Len(Scanned.sapling.commitments) = BlockOutputs
           /\ BlockOutputs > 0
                => CheckpointPositions(Scanned.sapling.commitments) = {BlockOutputs}

\* C10: the commitment of the last output of the last transaction is
\* Checkpoint{id = block.height}, and no commitment before it (an earlier
\* output of the last transaction, any output of an earlier transaction) is a
\* Checkpoint.
C10_CheckpointOnlyOnLastOutput ==
    LET T == Len(block.vtx)
        last_tx_has_outputs == T > 0 /\ Len(block.vtx[T].outputs) > 0
    IN /\ \A i \in CheckpointPositions(sapling_note_commitments) :
              /\ last_tx_has_outputs
              /\ i = BlockOutputs
              /\ sapling_note_commitments[i].retention.id = block.height
       /\ (pc = "done" /\ IsSome(start_tree_size) /\ last_tx_has_outputs)
              => /\ Len(sapling_note_commitments) = BlockOutputs
                 /\ BlockOutputs \in CheckpointPositions(sapling_note_commitments)
       /\ Succeeded => Scanned.sapling.commitments = sapling_note_commitments

\* Two transactions of two outputs each, the wallet's among the earlier
\* ones: one Checkpoint, on the fourth commitment.
C10_Witness ==
    /\ Succeeded
    /\ Len(block.vtx) = 2
    /\ Len(block.vtx[1].outputs) = 2 /\ Len(block.vtx[2].outputs) = 2
    /\ block.vtx[1].outputs[2].recipient = 1
    /\ block.vtx[2].outputs[1].recipient = 1
    /\ CheckpointPositions(Scanned.sapling.commitments) = {4}
    /\ Scanned.sapling.commitments[4].retention = Checkpoint(block.height, FALSE)
    /\ Scanned.sapling.commitments[2].retention = Marked

\* Every output of the block, in block order.
BlockOutputList == Flatten([i \in 1..Len(block.vtx) |-> block.vtx[i].outputs])

\* The output was encrypted to an ivk of one of the scan's keys.
BelongsToWallet(output) ==
    \E i \in 1..Len(sapling_keys) :
        \E j \in 1..Len(to_ivks(sapling_keys[i].key)) :
            to_ivks(sapling_keys[i].key)[j].ivk = output.recipient

IsMarkedCheckpoint(r) == r.kind = "Checkpoint" /\ r.is_marked
IsUnmarkedCheckpoint(r) == r.kind = "Checkpoint" /\ ~r.is_marked

\* C11: the retention of every commitment is Marked or Checkpoint{is_marked:
\* true} if its output decrypted for a wallet key and Ephemeral or
\* Checkpoint{is_marked: false} otherwise; so a returned list holds a
\* Checkpoint{is_marked: true} iff the last output of the last transaction
\* is the wallet's.
C11_RetentionMarksWalletOutputs ==
    /\ \A i \in 1..Len(sapling_note_commitments) :
          LET r == sapling_note_commitments[i].retention IN
          IF BelongsToWallet(BlockOutputList[i])
          THEN r = Marked \/ IsMarkedCheckpoint(r)
          ELSE r = Ephemeral \/ IsUnmarkedCheckpoint(r)
    /\ Succeeded =>
          LET T == Len(block.vtx) IN
          (\E i \in 1..Len(Scanned.sapling.commitments) :
               IsMarkedCheckpoint(Scanned.sapling.commitments[i].retention))
          <=> /\ T > 0
              /\ Len(block.vtx[T].outputs) > 0
              /\ BelongsToWallet(block.vtx[T].outputs[Len(block.vtx[T].outputs)])

\* A wallet output then a foreign one in the first transaction, a foreign
\* one then a wallet output in the last: Marked, Ephemeral, Ephemeral and
\* the marked checkpoint.
C11_Witness ==
    /\ Succeeded
    /\ [i \in 1..Len(BlockOutputList) |-> BlockOutputList[i].recipient]
           = <<1, 0, 0, 1>>
    /\ Len(block.vtx) = 2 /\ Len(block.vtx[1].outputs) = 2
    /\ [i \in 1..Len(Scanned.sapling.commitments) |->
           Scanned.sapling.commitments[i].retention]
           = <<Marked, Ephemeral, Ephemeral, Checkpoint(block.height, TRUE)>>

\* The transaction reveals a nullifier of the tracked table.
HasTrackedSpend(tx) ==
    \E i \in 1..Len(tx.spends) : \E k \in 1..Len(sapling_nullifiers) :
        sapling_nullifiers[k].nf = tx.spends[i].nf

HasWalletOutput(tx) ==
    \E j \in 1..Len(tx.outputs) : BelongsToWallet(tx.outputs[j])

\* C12: a scanned transaction has a WalletTx iff it reveals a tracked
\* nullifier or has an output that decrypts for a wallet key; every WalletTx
\* has a spend or an output; and the WalletTxs are what a successful scan
\* returns.
C12_WalletTxIffRelevant ==
    /\ \A p \in 1..Len(block.vtx) :
          (\E w \in 1..Len(wtxs) : wtxs[w].txid = block.vtx[p].txid)
          <=> /\ p <= tx_idx
              /\ HasTrackedSpend(block.vtx[p]) \/ HasWalletOutput(block.vtx[p])
    /\ \A w \in 1..Len(wtxs) :
          wtxs[w].sapling_spends # <<>> \/ wtxs[w].sapling_outputs # <<>>
    /\ Succeeded => Scanned.transactions = wtxs

\* A transaction with an untracked spend and a foreign output, then one with
\* a tracked spend and no outputs: one WalletTx, for the second, without
\* outputs.
C12_Witness ==
    /\ Succeeded
    /\ Len(block.vtx) = 2
    /\ block.vtx[1].spends = << [nf |-> 3] >>
    /\ [j \in 1..Len(block.vtx[1].outputs) |-> block.vtx[1].outputs[j].recipient] = <<0>>
    /\ block.vtx[2].spends = << [nf |-> 1] >>
    /\ block.vtx[2].outputs = <<>>
    /\ Len(Scanned.transactions) = 1
    /\ Scanned.transactions[1].txid = block.vtx[2].txid
    /\ Scanned.transactions[1].sapling_outputs = <<>>
    /\ Len(Scanned.transactions[1].sapling_spends) = 1

TrackedNfs == {sapling_nullifiers[k].nf : k \in 1..Len(sapling_nullifiers)}

\* C13: no unlinked nullifier of any entry of the nullifier map is a
\* nullifier of the tracked table of the scan, and a successful scan returns
\* that map.
C13_UnlinkedNotTracked ==
    /\ \A e \in 1..Len(sapling_nullifier_map) :
          \A n \in 1..Len(sapling_nullifier_map[e].nullifiers) :
              sapling_nullifier_map[e].nullifiers[n] \notin TrackedNfs
    /\ Succeeded => Scanned.sapling.nullifier_map = sapling_nullifier_map

\* Nullifier 2 tracked and 1 not; a transaction revealing 2 and then 1: its
\* entry holds 1 alone.
C13_Witness ==
    /\ Succeeded
    /\ sapling_nullifiers = << [account |-> 1, nf |-> 2] >>
    /\ Len(block.vtx) = 1
    /\ block.vtx[1].spends = << [nf |-> 2], [nf |-> 1] >>
    /\ Scanned.sapling.nullifier_map =
           << [txid |-> 1, index |-> 1, nullifiers |-> <<1>>] >>

\* C14: every emitted WalletSaplingSpend reveals the nullifier of the spend
\* at its index in its transaction, that nullifier is in the tracked table,
\* and its account is the account of the first entry of the table, in table
\* order, with that nullifier.
C14_SpendOfFirstTrackedAccount ==
    \A w \in 1..Len(wtxs) : \A s \in 1..Len(wtxs[w].sapling_spends) :
        LET tx == block.vtx[TxPosition(wtxs[w].txid)]
            spend == wtxs[w].sapling_spends[s]
        IN /\ spend.index + 1 \in 1..Len(tx.spends)
           /\ tx.spends[spend.index + 1].nf = spend.nf
           /\ \E k \in 1..Len(sapling_nullifiers) :
                 /\ sapling_nullifiers[k].nf = spend.nf
                 /\ sapling_nullifiers[k].account = spend.account
                 /\ \A j \in 1..(k - 1) : sapling_nullifiers[j].nf # spend.nf

\* Nullifier 1 tracked under account 0 and then under account 1; the second
\* spend of a transaction reveals it: one wallet spend, index 1, account 0.
C14_Witness ==
    /\ Succeeded
    /\ sapling_nullifiers = << [account |-> 0, nf |-> 1], [account |-> 1, nf |-> 1] >>
    /\ Len(block.vtx) = 1
    /\ block.vtx[1].spends = << [nf |-> 2], [nf |-> 1] >>
    /\ Len(Scanned.transactions) = 1
    /\ Scanned.transactions[1].sapling_spends =
           << [index |-> 1, nf |-> 1, account |-> 0] >>

\* C15: a scan with a runner that was registered with the scan's keys, fed
\* the block by add_block_to_runner and flushed returns what scan_block
\* returns for the same block, keys, tracked nullifiers and prior metadata:
\* the same ScannedBlock or the same error.
C15_ModesEquivalent ==
    (pc = "done" /\ IsSome(sapling_batch_runner))
        => result = Some(scan_block(params, block, sapling_keys,
                                    sapling_nullifiers, prior_block_metadata))

ReturnedError == pc = "done" /\ IsSome(result) /\ ~Unwrap(result).ok
ContinuityKinds == {"PrevHashMismatch", "BlockHeightDiscontinuity", "TreeSizeMismatch"}

\* C16: is_continuity_error of a returned error is true exactly when the
\* error is a PrevHashMismatch, a BlockHeightDiscontinuity or a
\* TreeSizeMismatch, and so false for a TreeSizeUnknown and a
\* TreeSizeInvalid, whatever the error's fields hold.
C16_ContinuityErrorKinds ==
    ReturnedError
        => (is_continuity_error(Unwrap(result).err)
            <=> Unwrap(result).err.kind \in ContinuityKinds)

\* A TreeSizeInvalid at height 2, not a continuity error.
C16_Witness ==
    /\ Returned(TreeSizeInvalid("Sapling", 2))
    /\ ~is_continuity_error(Unwrap(result).err)

\* C17: at_height() of every error a scan returns is the height of the
\* block being scanned; for a BlockHeightDiscontinuity that is new_height.
C17_ErrorAtBlockHeight ==
    ReturnedError => at_height(Unwrap(result).err) = block.height

\* A block at height 1 offered after a block at height 2.
C17_Witness ==
    /\ Returned(BlockHeightDiscontinuity(2, 1))
    /\ block.height = 1
    /\ at_height(Unwrap(result).err) = 1

\* C18 as stated: on a block that passes the continuity gate with chain
\* metadata declaring a Sapling end size below the block's output count, the
\* scan returns TreeSizeInvalid whether or not the prior metadata carries a
\* Sapling tree size.
C18_InvalidWhateverThePrior ==
    (pc = "done" /\ ContinuityHolds /\ HasChainMetadata
        /\ DeclaredSize < BlockOutputs)
        => Returned(TreeSizeInvalid("Sapling", block.height))

\* C18, amended: on such a block the scan returns TreeSizeInvalid when the
\* prior metadata is absent or carries no Sapling tree size; when it carries
\* one, that size is the start size, the declared size is not read until the
\* audit, and the scan returns TreeSizeMismatch{given = declared size,
\* computed = prior size + outputs of the block}.
C18_InvalidWithoutPriorSize ==
    (pc = "done" /\ ContinuityHolds /\ HasChainMetadata
        /\ DeclaredSize < BlockOutputs)
        => IF PriorHasTreeSize
           THEN Returned(TreeSizeMismatch(
                    "Sapling", block.height, DeclaredSize,
                    Unwrap(Prior.sapling_tree_size) + BlockOutputs))
           ELSE Returned(TreeSizeInvalid("Sapling", block.height))

\* A prior size of 0, two outputs, a declared size of 1: a mismatch of 1
\* against 2.
C18_Witness ==
    /\ ContinuityHolds /\ PriorHasTreeSize
    /\ Prior.sapling_tree_size = Some(0)
    /\ HasChainMetadata /\ DeclaredSize = 1 /\ BlockOutputs = 2
    /\ Returned(TreeSizeMismatch("Sapling", block.height, 1, 2))

Untracked(n) == n \notin TrackedNfs

\* C19: the emitted data is in source order.  The WalletTxs are in the
\* order of their transactions in the block; the spends and the outputs of
\* each WalletTx are in increasing index; the nullifier map has one entry
\* per scanned transaction, in block order, holding the transaction's
\* untracked nullifiers in spend order; the commitments are the commitments
\* of the outputs of the scanned transactions, in block order.
C19_SourceOrder ==
    /\ \A w1, w2 \in 1..Len(wtxs) :
          w1 < w2 => TxPosition(wtxs[w1].txid) < TxPosition(wtxs[w2].txid)
    /\ \A w \in 1..Len(wtxs) :
          /\ \A s1, s2 \in 1..Len(wtxs[w].sapling_spends) :
                s1 < s2 => wtxs[w].sapling_spends[s1].index
                               < wtxs[w].sapling_spends[s2].index
          /\ \A o1, o2 \in 1..Len(wtxs[w].sapling_outputs) :
                o1 < o2 => wtxs[w].sapling_outputs[o1].index
                               < wtxs[w].sapling_outputs[o2].index
    /\ Len(sapling_nullifier_map) = tx_idx
    /\ \A e \in 1..Len(sapling_nullifier_map) :
          /\ sapling_nullifier_map[e].txid = block.vtx[e].txid
          /\ sapling_nullifier_map[e].nullifiers =
                 SelectSeq([i \in 1..Len(block.vtx[e].spends) |->
                               block.vtx[e].spends[i].nf], Untracked)
    /\ [i \in 1..Len(sapling_note_commitments) |-> sapling_note_commitments[i].node]
           = [i \in 1..OutputsOfFirst(tx_idx) |-> BlockOutputList[i].cmu]

\* Two transactions, each revealing 3, 2, 1 and paying account 2, nobody
\* and account 1: wallet spends 1 and 2 and wallet outputs 0 and 2 in each,
\* nullifier 3 unlinked in each, six commitments in block order.
C19_Witness ==
    /\ Succeeded
    /\ Len(block.vtx) = 2
    /\ \A p \in 1..2 :
          /\ block.vtx[p].spends = << [nf |-> 3], [nf |-> 2], [nf |-> 1] >>
          /\ Len(block.vtx[p].outputs) = 3
    /\ [w \in 1..Len(Scanned.transactions) |-> Scanned.transactions[w].txid] = <<1, 2>>
    /\ \A w \in 1..Len(Scanned.transactions) :
          /\ [s \in 1..Len(Scanned.transactions[w].sapling_spends) |->
                 Scanned.transactions[w].sapling_spends[s].index] = <<1, 2>>
          /\ [o \in 1..Len(Scanned.transactions[w].sapling_outputs) |->
                 Scanned.transactions[w].sapling_outputs[o].index] = <<0, 2>>
    /\ [e \in 1..Len(Scanned.sapling.nullifier_map) |->
           Scanned.sapling.nullifier_map[e].nullifiers] = << <<3>>, <<3>> >>
    /\ [i \in 1..Len(Scanned.sapling.commitments) |->
           Scanned.sapling.commitments[i].node] = <<11, 12, 13, 21, 22, 23>>

\* The account the tracked table gives a nullifier: that of the first entry
\* with the nullifier.
SpendsFrom(tx, account) ==
    \E i \in 1..Len(tx.spends) : \E k \in 1..Len(sapling_nullifiers) :
        /\ sapling_nullifiers[k].nf = tx.spends[i].nf
        /\ sapling_nullifiers[k].account = account
        /\ \A j \in 1..(k - 1) : sapling_nullifiers[j].nf # tx.spends[i].nf

\* C20: is_change of an emitted WalletSaplingOutput is true iff its own
\* transaction has a wallet spend of the output's account; a spend in
\* another transaction of the block does not make it change.
C20_ChangeIffSpentInSameTx ==
    \A w \in 1..Len(wtxs) : \A o \in 1..Len(wtxs[w].sapling_outputs) :
        wtxs[w].sapling_outputs[o].is_change
        <=> SpendsFrom(block.vtx[TxPosition(wtxs[w].txid)],
                       wtxs[w].sapling_outputs[o].account)

\* Account 2 spends in the first transaction; the second spends from
\* account 1 and pays account 2, nobody and account 1: the output of
\* account 2 is not change, that of account 1 is.
C20_Witness ==
    /\ Succeeded
    /\ Len(block.vtx) = 2
    /\ block.vtx[1].spends = << [nf |-> 2] >>
    /\ block.vtx[2].spends = << [nf |-> 1] >>
    /\ Len(Scanned.transactions) = 2
    /\ [o \in 1..Len(Scanned.transactions[2].sapling_outputs) |->
           <<Scanned.transactions[2].sapling_outputs[o].account,
             Scanned.transactions[2].sapling_outputs[o].is_change>>]
           = << <<2, FALSE>>, <<1, TRUE>> >>

NoteOf(output) == [cmu |-> output.cmu, ivk |-> output.recipient]

\* The wallet outputs emitted for the transaction at position p of the block.
EmittedOutputs(p) ==
    LET ws == {w \in 1..Len(wtxs) : wtxs[w].txid = block.vtx[p].txid} IN
    IF ws = {} THEN <<>> ELSE wtxs[CHOOSE w \in ws : TRUE].sapling_outputs

\* Every registered (account, scope) tag names one key.
DistinctTags ==
    \A i, j \in 1..Len(tagged_ivks(sapling_keys)) :
        tagged_ivks(sapling_keys)[i].tag = tagged_ivks(sapling_keys)[j].tag
            => i = j

\* C22: in a scan with a runner, whichever batch the workers finish first
\* and wherever the scanner is when they do: every result held by the runner
\* is the note of the output at its (txid, index); the wallet outputs emitted
\* for a scanned transaction are exactly its outputs encrypted to a
\* registered ivk, each with its own index, commitment, note and tree
\* position; the retention marks are those of these outputs; and with one
\* key per tag the scan returns what scan_block returns.
C22_WorkerOrderIrrelevant ==
    IsSome(sapling_batch_runner) =>
        /\ \A d \in Unwrap(sapling_batch_runner).results :
              LET tx == block.vtx[TxPosition(d.txid)] IN
              /\ d.block_tag = block.hash
              /\ d.index + 1 \in 1..Len(tx.outputs)
              /\ d.note = NoteOf(tx.outputs[d.index + 1])
              /\ BelongsToWallet(tx.outputs[d.index + 1])
        /\ \A p \in 1..tx_idx :
              LET tx == block.vtx[p]
                  mine == SelectSeq([j \in 1..Len(tx.outputs) |->
                                        [index |-> j - 1, output |-> tx.outputs[j]]],
                                    LAMBDA x : BelongsToWallet(x.output))
                  emitted == EmittedOutputs(p)
              IN /\ Len(emitted) = Len(mine)
                 /\ \A o \in 1..Len(emitted) :
                       /\ emitted[o].index = mine[o].index
                       /\ emitted[o].cmu = mine[o].output.cmu
                       /\ emitted[o].note = NoteOf(mine[o].output)
                       /\ emitted[o].note_commitment_tree_position =
                              Unwrap(start_tree_size) + OutputsOfFirst(p - 1)
                              + mine[o].index
        /\ \A i \in 1..Len(sapling_note_commitments) :
              LET r == sapling_note_commitments[i].retention IN
              (r = Marked \/ IsMarkedCheckpoint(r))
                  <=> BelongsToWallet(BlockOutputList[i])
        /\ (pc = "done" /\ DistinctTags)
              => result = Some(scan_block(params, block, sapling_keys,
                                          sapling_nullifiers,
                                          prior_block_metadata))

\* Every transaction its own batch; the worker has finished the batch of
\* the second transaction while that of the first is still running and the
\* scanner waits for it: the runner holds the note of the second
\* transaction's second output only.
C22_Witness ==
    /\ IsSome(sapling_batch_runner)
    /\ Unwrap(sapling_batch_runner).batch_size_threshold = 1
    /\ pc = "transactions" /\ tx_idx = 0
    /\ Len(block.vtx) = 2
    /\ [i \in 1..Len(BlockOutputList) |-> BlockOutputList[i].recipient] = <<0, 1, 0, 1>>
    /\ Len(block.vtx[1].outputs) = 2
    /\ \E batch \in Unwrap(sapling_batch_runner).running : batch[1].txid = 1
    /\ {<<d.txid, d.index, d.note.cmu>> : d \in Unwrap(sapling_batch_runner).results}
           = {<<2, 1, 22>>}

\* The (account, scope, ivk, nk) of the scan's keys that decrypts the output:
\* the first, in key order, with the ivk the output was encrypted to.
DecryptingKey(output) ==
    LET fk == flat_keys(sapling_keys)
        hits == {j \in 1..Len(fk) : fk[j].ivk = output.recipient}
    IN fk[CHOOSE j \in hits : \A k \in hits : j <= k]

\* C23: the nullifier of every emitted WalletSaplingOutput is derived from
\* the nk of the key and scope that decrypted the output, the output's note
\* and the output's own tree position; it is the unit value when the keys are
\* incoming viewing keys.
C23_NullifierOfDecryptingKey ==
    \A w \in 1..Len(wtxs) : \A o \in 1..Len(wtxs[w].sapling_outputs) :
        LET out == wtxs[w].sapling_outputs[o]
            output == block.vtx[TxPosition(wtxs[w].txid)].outputs[out.index + 1]
            key == DecryptingKey(output)
        IN /\ out.recipient_key_scope = key.scope
           /\ out.note = NoteOf(output)
           /\ IF key.scope = "Unit"
              THEN out.nf = Unit
              ELSE out.nf = <<key.nk, output.cmu, out.note_commitment_tree_position>>

\* Full viewing keys, a start size of 3 and one transaction paying account
\* 2, nobody and the internal ivk of account 1: nullifiers from nk 3 at
\* position 3 and from nk 2 at position 5.
C23_Witness ==
    /\ Succeeded /\ sapling_keys = TwoAccountKeys
    /\ start_tree_size = Some(3)
    /\ Len(block.vtx) = 1
    /\ [j \in 1..Len(block.vtx[1].outputs) |-> block.vtx[1].outputs[j].recipient]
           = <<3, 0, 2>>
    /\ Len(Scanned.transactions) = 1
    /\ [o \in 1..Len(Scanned.transactions[1].sapling_outputs) |->
           Scanned.transactions[1].sapling_outputs[o].nf]
           = << <<3, 11, 3>>, <<2, 13, 5>> >>

\* C24: the nullifier map a successful scan returns has one entry per
\* transaction of the block, in block order: the transaction's txid, its
\* declared index and its untracked nullifiers in spend order, an empty list
\* for a transaction without spends or with wallet spends only.
C24_NullifierMapEntryPerTx ==
    Succeeded
        => Scanned.sapling.nullifier_map =
               [p \in 1..Len(block.vtx) |->
                   [txid |-> block.vtx[p].txid,
                    index |-> block.vtx[p].index,
                    nullifiers |->
                        SelectSeq([i \in 1..Len(block.vtx[p].spends) |->
                                      block.vtx[p].spends[i].nf], Untracked)]]

\* A transaction without spends and one with a wallet spend only: two
\* entries with empty lists, the declared indices 1 and 3.
C24_Witness ==
    /\ Succeeded
    /\ Len(block.vtx) = 2
    /\ block.vtx[1].spends = <<>>
    /\ block.vtx[2].spends = << [nf |-> 1] >>
    /\ Scanned.sapling.nullifier_map =
           << [txid |-> 1, index |-> 1, nullifiers |-> <<>>],
              [txid |-> 2, index |-> 3, nullifiers |-> <<>>] >>

\* C25: errors follow the pipeline.  A block that fails the continuity gate
\* returns BlockHeightDiscontinuity or PrevHashMismatch with no tree size
\* resolved and no transaction processed, whatever its tree sizes are; a
\* TreeSizeInvalid or TreeSizeUnknown is returned by a block that passed the
\* gate, before any transaction is processed; a TreeSizeMismatch is returned
\* by a block that passed the gate and the resolver, after all its
\* transactions were processed.
C25_ErrorsInPipelineOrder ==
    /\ (pc = "done" /\ ~ContinuityHolds)
          => /\ ReturnedError
             /\ Unwrap(result).err.kind
                    \in {"BlockHeightDiscontinuity", "PrevHashMismatch"}
             /\ start_tree_size = None /\ tx_idx = 0
    /\ (ReturnedError
           /\ Unwrap(result).err.kind \in {"TreeSizeInvalid", "TreeSizeUnknown"})
          => /\ ContinuityHolds
             /\ start_tree_size = None /\ tx_idx = 0
             /\ wtxs = <<>> /\ sapling_nullifier_map = <<>>
             /\ sapling_note_commitments = <<>>
    /\ (ReturnedError /\ Unwrap(result).err.kind = "TreeSizeMismatch")
          => /\ ContinuityHolds
             /\ IsSome(start_tree_size)
             /\ tx_idx = Len(block.vtx)
             /\ Len(sapling_nullifier_map) = Len(block.vtx)

\* A wrong parent hash on a block whose chain metadata declares less than
\* its outputs, with no prior tree size: PrevHashMismatch, not
\* TreeSizeInvalid.
C25_Witness ==
    /\ HasPrior /\ HeightFollows /\ ~HashFollows
    /\ ~PriorHasTreeSize /\ HasChainMetadata /\ DeclaredSize < BlockOutputs
    /\ Returned(PrevHashMismatch(block.height))
    /\ start_tree_size = None /\ tx_idx = 0

\* C28: a scan returns a Sapling TreeSizeMismatch only if the start size
\* came from the prior metadata; a scan whose start size was derived from
\* the block's own chain metadata passes the audit.
C28_MismatchOnlyFromPrior ==
    /\ (ReturnedError /\ Unwrap(result).err.kind = "TreeSizeMismatch")
          => PriorHasTreeSize
    /\ (pc = "done" /\ ContinuityHolds /\ ~PriorHasTreeSize
           /\ HasChainMetadata /\ IsSome(start_tree_size))
          => /\ Succeeded
             /\ Scanned.sapling.final_tree_size = DeclaredSize

\* No prior size, two outputs and a declared size of 3: start size 1, and
\* the audit passes on 3.
C28_Witness ==
    /\ ~PriorHasTreeSize /\ HasChainMetadata
    /\ BlockOutputs = 2 /\ DeclaredSize = 3
    /\ start_tree_size = Some(1)
    /\ Succeeded /\ Scanned.sapling.final_tree_size = 3

\* The wallet spends emitted for the transaction at position p of the block.
EmittedSpends(p) ==
    LET ws == {w \in 1..Len(wtxs) : wtxs[w].txid = block.vtx[p].txid} IN
    IF ws = {} THEN <<>> ELSE wtxs[CHOOSE w \in ws : TRUE].sapling_spends

\* C29: the matcher partitions the spends of every scanned transaction.
\* Each spend is a wallet spend (emitted once, at its index) if its nullifier
\* is tracked and an unlinked nullifier otherwise, so the wallet spends and
\* the unlinked nullifiers together are as many as the transaction's spends;
\* with an empty tracked table every spend is unlinked.
C29_MatcherPartitionsSpends ==
    \A p \in 1..tx_idx :
        LET tx == block.vtx[p]
            found == EmittedSpends(p)
            unlinked == sapling_nullifier_map[p].nullifiers
        IN /\ Len(found) + Len(unlinked) = Len(tx.spends)
           /\ \A i \in 1..Len(tx.spends) :
                 Cardinality({s \in 1..Len(found) : found[s].index = i - 1})
                     = IF tx.spends[i].nf \in TrackedNfs THEN 1 ELSE 0
           /\ unlinked = SelectSeq([i \in 1..Len(tx.spends) |-> tx.spends[i].nf],
                                   Untracked)
           /\ sapling_nullifiers = <<>>
                 => /\ found = <<>>
                    /\ unlinked = [i \in 1..Len(tx.spends) |-> tx.spends[i].nf]

\* Nullifier 1 tracked, 2 not; a transaction revealing 1 and 2: one wallet
\* spend and one unlinked nullifier.  (The empty table is among the tables
\* of the specification.)
C29_Witness ==
    /\ Succeeded
    /\ sapling_nullifiers = << [account |-> 1, nf |-> 1] >>
    /\ Len(block.vtx) = 1
    /\ block.vtx[1].spends = << [nf |-> 1], [nf |-> 2] >>
    /\ Len(EmittedSpends(1)) = 1
    /\ sapling_nullifier_map[1].nullifiers = <<2>>

---------------------------------------------------------------------------
\* The Orchard track enabled.  A transaction has no, one or two actions
\* beside no or one Sapling output (nobody's); the prior metadata, when
\* present, carries each size or not; the chain metadata, when present,
\* declares both sizes; Nu5 is unset, active at the block or not yet active.
OrchardTxShapes ==
    {[outputs |-> <<>>, actions |-> <<>>],
     [outputs |-> <<0>>, actions |-> <<>>],
     [outputs |-> <<>>, actions |-> <<1>>],
     [outputs |-> <<0>>, actions |-> <<1, 2>>]}

OrchardCompactTx(i, shape) ==
    [txid |-> i,
     index |-> i - 1,
     spends |-> <<>>,
     outputs |-> [j \in 1..Len(shape.outputs) |->
                     [cmu |-> 10 * i + j, recipient |-> shape.outputs[j]]],
     actions |-> [j \in 1..Len(shape.actions) |->
                     [nullifier |-> 10 * i + shape.actions[j]]]]

OrchardCompactBlock(shapes, chain_metadata) ==
    [height |-> 1,
     hash |-> 1,
     prev_hash |-> 0,
     vtx |-> [i \in 1..Len(shapes) |-> OrchardCompactTx(i, shapes[i])],
     chain_metadata |-> chain_metadata]

InitOrchard ==
    /\ params = None
    /\ nu5_activation \in {None, Some(1), Some(2)}
    /\ block \in {OrchardCompactBlock(shapes, cm) :
                     shapes \in SeqsUpTo(OrchardTxShapes, MaxTxs),
                     cm \in OptionOf({[sapling_commitment_tree_size |-> s,
                                       orchard_commitment_tree_size |-> o] :
                                         s \in {0, 1, 2}, o \in TreeSizes})}
    /\ prior_block_metadata \in
           OptionOf({[block_height |-> 0, block_hash |-> 0,
                      sapling_tree_size |-> s, orchard_tree_size |-> o] :
                        s \in {None, Some(1)}, o \in {None, Some(0), Some(2)}})
    /\ sapling_keys = WalletKeys
    /\ sapling_nullifiers = <<>>
    /\ sapling_batch_runner = None
    /\ pc = "continuity"
    /\ start_tree_size = None
    /\ sapling_commitment_tree_size = 0
    /\ tx_idx = 0
    /\ wtxs = <<>>
    /\ sapling_nullifier_map = <<>>
    /\ sapling_note_commitments = <<>>
    /\ result = None
    /\ orchard_feature = TRUE
    /\ orchard_commitment_tree_size = 0
    /\ scanned_blocks = <<>>

SpecOrchard == InitOrchard /\ [][NextOrchard]_vars

\* The number of actions of the first n transactions of the block.
RECURSIVE ActionsOfFirst(_)
ActionsOfFirst(n) ==
    IF n = 0 THEN 0 ELSE ActionsOfFirst(n - 1) + Len(block.vtx[n].actions)

BlockActions == ActionsOfFirst(Len(block.vtx))
DeclaredOrchardSize == Unwrap(block.chain_metadata).orchard_commitment_tree_size
PriorHasOrchardSize == HasPrior /\ IsSome(Prior.orchard_tree_size)

\* The seed rules of the Sapling counter read for Orchard: the prior
\* metadata's size, else the declared end size less the block's actions
\* (TreeSizeInvalid when that is negative), else zero before Nu5 activation
\* or with activation unset (TreeSizeUnknown otherwise).
OrchardSeed ==
    IF PriorHasOrchardSize THEN Ok(Unwrap(Prior.orchard_tree_size))
    ELSE IF HasChainMetadata
    THEN IF DeclaredOrchardSize >= BlockActions
         THEN Ok(DeclaredOrchardSize - BlockActions)
         ELSE Err(TreeSizeInvalid("Orchard", block.height))
    ELSE IF ~IsSome(nu5_activation) \/ block.height < Unwrap(nu5_activation)
    THEN Ok(0)
    ELSE Err(TreeSizeUnknown("Orchard", block.height))

\* The Sapling counter was seeded and, at the end, passed its audit.
SaplingPasses ==
    /\ IsSome(start_tree_size)
    /\ HasChainMetadata => DeclaredSize = Unwrap(start_tree_size) + BlockOutputs

\* C26: with the Orchard track enabled the Orchard counter follows the
\* Sapling rules.  A seed error of the Orchard rules is returned once the
\* Sapling counter is seeded; inside the loop the counter is the seed plus
\* the actions of the transactions scanned; the audit returns
\* TreeSizeMismatch{Orchard, given = declared, computed = seed + actions}
\* when the declared Orchard size differs; a returned block has
\* orchard final_tree_size = seed + total actions, and its Orchard
\* commitment list and nullifier map are empty whatever the actions.
C26_OrchardCounter ==
    /\ (pc = "done" /\ IsSome(start_tree_size) /\ ~OrchardSeed.ok)
           => Returned(OrchardSeed.err)
    /\ pc = "transactions"
           => /\ OrchardSeed.ok
              /\ orchard_commitment_tree_size
                     = OrchardSeed.val + ActionsOfFirst(tx_idx)
    /\ (pc = "done" /\ SaplingPasses /\ OrchardSeed.ok /\ HasChainMetadata
           /\ DeclaredOrchardSize # OrchardSeed.val + BlockActions)
           => Returned(TreeSizeMismatch("Orchard", block.height,
                                        DeclaredOrchardSize,
                                        OrchardSeed.val + BlockActions))
    /\ Succeeded
           => /\ OrchardSeed.ok
              /\ Scanned.orchard.final_tree_size = OrchardSeed.val + BlockActions
              /\ Scanned.orchard.commitments = <<>>
              /\ Scanned.orchard.nullifier_map = <<>>

\* A block of one transaction with a Sapling output and two actions, on a
\* prior Orchard size of 0 and declaring an Orchard size of 2, is returned
\* with Orchard final size 2 and empty Orchard lists.
C26_Witness ==
    /\ Succeeded
    /\ PriorHasOrchardSize /\ Prior.orchard_tree_size = Some(0)
    /\ HasChainMetadata /\ DeclaredOrchardSize = 2
    /\ Len(block.vtx) = 1 /\ Len(block.vtx[1].actions) = 2
    /\ Scanned.orchard.final_tree_size = 2
    /\ Scanned.orchard.commitments = <<>>

---------------------------------------------------------------------------
\* Tree sizes at the top of the 32-bit range.  `+` and `+=` on u32 panic on
\* overflow in a build with overflow checks (debug) and wrap in a build
\* without them (release): ScanTx is the wrapping build, OverflowPanic the
\* checking one.

\* sapling_commitment_tree_size + u32::try_from(output_idx).unwrap() and
\* sapling_commitment_tree_size += tx_outputs_len, with overflow checks:
\* the thread panics inside the iteration whose sums pass the modulus.
OverflowPanic ==
    /\ pc = "transactions"
    /\ tx_idx < Len(block.vtx)
    /\ sapling_commitment_tree_size + Len(block.vtx[tx_idx + 1].outputs)
           >= U32Modulus
    /\ pc' = "panicked"
    /\ UNCHANGED <<orchard_feature, nu5_activation,
                   orchard_commitment_tree_size, scanned_blocks>>
    /\ UNCHANGED <<params, block, prior_block_metadata, sapling_keys,
                   sapling_nullifiers, sapling_batch_runner, start_tree_size,
                   sapling_commitment_tree_size, tx_idx, wtxs,
                   sapling_nullifier_map, sapling_note_commitments, result>>

NextOverflow ==
    \/ Next
    \/ OverflowPanic

\* Prior tree sizes 0 and the two largest a u32 holds; blocks of up to MaxTxs
\* transactions with none, one (the wallet's) or two outputs (the second
\* the wallet's); chain metadata absent or declaring 0 or 1.
OverflowOutputLists == {<<>>, <<1>>, <<0, 1>>}

InitOverflow ==
    InitScan({None},
             {CompactBlockOf(1, 0, shapes, cm) :
                 shapes \in SeqsUpTo({[spends |-> <<>>, outputs |-> out] :
                                         out \in OverflowOutputLists},
                                     MaxTxs),
                 cm \in {None, Some(ChainMetadata(0)), Some(ChainMetadata(1))}},
             {Some(BlockMetadata(0, 0, Some(n))) :
                 n \in {0, U32Modulus - 2, U32Modulus - 1}},
             {WalletKeys},
             {<<>>},
             {None})

SpecOverflow == InitOverflow /\ [][NextOverflow]_vars

\* C30: the tree-size arithmetic never wraps.  Whatever the prior tree size
\* and the block, the running counter is the exact sum of the start size and
\* the outputs of the transactions scanned so far, and every computed
\* position is the exact sum of the start size, the outputs of the earlier
\* transactions and the output's index.
C30_ArithmeticNeverWraps ==
    IsSome(start_tree_size) =>
        /\ sapling_commitment_tree_size =
               Unwrap(start_tree_size) + OutputsOfFirst(tx_idx)
        /\ \A w \in 1..Len(wtxs) : \A o \in 1..Len(wtxs[w].sapling_outputs) :
               wtxs[w].sapling_outputs[o].note_commitment_tree_position =
                   Unwrap(start_tree_size)
                   + OutputsOfFirst(TxPosition(wtxs[w].txid) - 1)
                   + wtxs[w].sapling_outputs[o].index

\* The wrapped counter passes the audit: a block of one output on the
\* largest prior size, declaring a tree size of 0, scans successfully.
C30_WrappedScanSucceeds ==
    /\ Succeeded
    /\ Unwrap(start_tree_size) = U32Modulus - 1
    /\ BlockOutputs = 1
    /\ Scanned.sapling.final_tree_size = 0

---------------------------------------------------------------------------
\* A sequence of scans.  The caller feeds blocks in height order and threads
\* the metadata of each scanned block forward as the prior of the next.

\* The number of blocks of a sequence.
MaxBlocks == 2

\* The output lists of the transactions of a block: recipient 1 is the
\* wallet's, 0 nobody's.
ChainBlocks ==
    {<<>>, << <<1>> >>, << <<0, 1>> >>, << <<1, 1>> >>,
     << <<1>>, <<0, 1>> >>, << <<0>>, <<>>, <<1>> >>}

ChainBlock(height, prev_hash, output_lists) ==
    CompactBlockOf(height, prev_hash,
                   [i \in 1..Len(output_lists) |->
                       [spends |-> <<>>, outputs |-> output_lists[i]]],
                   None)

\* BlockMetadata::from_parts(height, hash, Some(sapling final_tree_size))
threaded_metadata_StartSize(scanned, start) ==
    BlockMetadata(scanned.height, scanned.hash, Some(start))

threaded_metadata(scanned, start) ==
    BlockMetadata(scanned.height, scanned.hash,
                  Some(scanned.sapling.final_tree_size))

\* After a successful scan: the next block of the chain, with the scanned
\* block's metadata as its prior.
NextBlock ==
    /\ pc = "done"
    /\ IsSome(result) /\ Unwrap(result).ok
    /\ Len(scanned_blocks) + 1 < MaxBlocks
    /\ \E output_lists \in ChainBlocks :
           block' = ChainBlock(block.height + 1, block.hash, output_lists)
    /\ prior_block_metadata' =
           Some(threaded_metadata(Unwrap(result).val, Unwrap(start_tree_size)))
    /\ scanned_blocks' =
           Append(scanned_blocks, [start_tree_size |-> Unwrap(start_tree_size),
                                   scanned |-> Unwrap(result).val])
    /\ pc' = "continuity"
    /\ start_tree_size' = None
    /\ sapling_commitment_tree_size' = 0
    /\ tx_idx' = 0
    /\ wtxs' = <<>>
    /\ sapling_nullifier_map' = <<>>
    /\ sapling_note_commitments' = <<>>
    /\ result' = None
    /\ UNCHANGED <<params, sapling_keys, sapling_nullifiers,
                   sapling_batch_runner, orchard_feature, nu5_activation,
                   orchard_commitment_tree_size>>

NextChain ==
    \/ Next
    \/ NextBlock

InitChain ==
    InitScan({None},
             {ChainBlock(1, 0, output_lists) : output_lists \in ChainBlocks},
             {None, Some(BlockMetadata(0, 0, Some(MaxTreeSize)))},
             {WalletKeys},
             {<<>>},
             {None})

SpecChain == InitChain /\ [][NextChain]_vars

\* The successful scans of the sequence so far, the one just returned last.
Scans ==
    scanned_blocks \o
    (IF Succeeded
     THEN << [start_tree_size |-> Unwrap(start_tree_size), scanned |-> Scanned] >>
     ELSE <<>>)

\* The wallet outputs of a scanned block, in order.
RECURSIVE WalletOutputsOf(_)
WalletOutputsOf(transactions) ==
    IF transactions = <<>> THEN <<>>
    ELSE Head(transactions).sapling_outputs \o WalletOutputsOf(Tail(transactions))

\* The tree positions of the wallet outputs of the first n scans, in order.
RECURSIVE WalletPositions(_)
WalletPositions(n) ==
    IF n = 0 THEN <<>>
    ELSE WalletPositions(n - 1) \o
         [o \in 1..Len(WalletOutputsOf(Scans[n].scanned.transactions)) |->
             WalletOutputsOf(Scans[n].scanned.transactions)[o]
                 .note_commitment_tree_position]

\* C27: over a sequence of successful scans threaded by the caller, each
\* block starts at the final size of the block before it; the commitments of
\* a block take the positions start .. final - 1 in order, so the positions
\* of the sequence are contiguous and increasing (a wallet output's position
\* is that of its commitment); and the positions of the wallet outputs of
\* the whole sequence increase strictly, so no two share a position.
C27_PositionsThreadAcrossBlocks ==
    /\ \A k \in 2..Len(Scans) :
           Scans[k].start_tree_size = Scans[k - 1].scanned.sapling.final_tree_size
    /\ (scanned_blocks # <<>> /\ IsSome(start_tree_size))
           => Unwrap(start_tree_size)
                  = scanned_blocks[Len(scanned_blocks)].scanned.sapling.final_tree_size
    /\ \A k \in 1..Len(Scans) :
           LET start == Scans[k].start_tree_size
               sapling == Scans[k].scanned.sapling
               outs == WalletOutputsOf(Scans[k].scanned.transactions)
           IN /\ sapling.final_tree_size = start + Len(sapling.commitments)
              /\ \A o \in 1..Len(outs) :
                     LET i == outs[o].note_commitment_tree_position - start + 1 IN
                     /\ i \in 1..Len(sapling.commitments)
                     /\ sapling.commitments[i].node = Node_from_cmu(outs[o].cmu)
    /\ LET positions == WalletPositions(Len(Scans)) IN
       /\ \A i, j \in 1..Len(positions) : i < j => positions[i] < positions[j]
       /\ Cardinality({positions[i] : i \in 1..Len(positions)}) = Len(positions)

\* Two blocks on a prior size of MaxTreeSize: outputs nobody's and the
\* wallet's in the first, two transactions in the second; the wallet's
\* outputs sit at positions MaxTreeSize + 1, + 2 and + 4.
C27_Witness ==
    /\ Succeeded
    /\ Len(Scans) = 2
    /\ Scans[1].start_tree_size = MaxTreeSize
    /\ Scans[2].start_tree_size = MaxTreeSize + 2
    /\ Scans[2].scanned.sapling.final_tree_size = MaxTreeSize + 5
    /\ WalletPositions(2) = <<MaxTreeSize + 1, MaxTreeSize + 2, MaxTreeSize + 4>>

====
